---- MODULE Spec2Model ----
(***************************************************************************)
(* Air-quality aggregation layer of the dashboard: AQIService              *)
(* (src/src/services/aqiService.ts) and SearchService                      *)
(* (src/unnamed/part_001).                                                 *)
(*                                                                         *)
(* Numbers.  JavaScript doubles are kept as fixed-point integers with      *)
(* four decimals (Scale); Math.round is floor(x + 0.5).  Times are epoch   *)
(* milliseconds; new Date(t).toISOString() denotes t to the millisecond    *)
(* and is kept as t; local time is taken to be UTC.                        *)
(* Math.random() is an input: the k-th draw of a call is Draw(sched, k)    *)
(* for a schedule sched chosen by the environment.                         *)
(***************************************************************************)
EXTENDS Integers, Sequences, FiniteSets, TLC

VARIABLES
  now,        \* Date.now(), epoch ms
  keys,       \* the VITE_*_API_KEY values (static readonly)
  cache,      \* AQIService.cache: Map from cacheKey to {data, timestamp}
  calls,      \* per caller, its getCurrentAQI / getForecast invocation in flight
  returned,   \* the invocation that is returning to its caller, and with what
  searchCache,     \* SearchService.cache: cacheKey -> {data, timestamp, expiresAt}
  searchCalls,     \* per caller, its searchLocations invocation in flight
  searchReturned,  \* the SearchService invocation that is returning, and with what
  locationSearch,  \* the state of the LocationSearch component
  aqiHook          \* the state of the useAQI hook and of its interval timer

searchVars == <<searchCache, searchCalls, searchReturned>>
uiVars == <<locationSearch, aqiHook>>
vars == <<now, keys, cache, calls, returned, searchVars, uiVars>>

-----------------------------------------------------------------------------
(* Bounds of the model *)

MaxTicks == 2          \* the clock of the aggregator advances this many times
MaxGenHours == 24      \* the generators are applied at this many successive hours
MaxSearchTicks == 1    \* the clock of the search advances this many times
MaxRefreshes == 2      \* useAQI refreshes its reading this many times
MaxClockTurns == 1    \* cache writes of the search that fall on the turn of a millisecond

-----------------------------------------------------------------------------
(* Fixed-point helpers *)

Scale == 10 * 1000
MsPerTick == 150 * 1000      \* the clock is observed every 2.5 minutes
MsPerSearchTick == 10 * 60 * 1000  \* ... and every 10 minutes by the search
MsPerHour == 60 * 60 * 1000
MsPerDay == 24 * MsPerHour

Min(a, b) == IF a < b THEN a ELSE b
Max(a, b) == IF a > b THEN a ELSE b

\* Math.round on a fixed-point value: nearest integer, halves towards +infinity
MathRound(x) == (x + Scale \div 2) \div Scale

\* Math.sin(k * Math.PI / 12) for integer k, times Scale
SinTable == <<0, 2588, 5000, 7071, 8660, 9659, 10000, 9659, 8660, 7071, 5000, 2588,
              0, -2588, -5000, -7071, -8660, -9659, -10000, -9659, -8660, -7071, -5000, -2588>>
SinPi12(k) == SinTable[(k % 24) + 1]

\* Date.prototype.getHours / getDay of the instant t (1 Jan 1970 was a Thursday)
getHours(t) == (t \div MsPerHour) % 24
getDay(t) == ((t \div MsPerDay) + 4) % 7

\* Math.random(): draws in [0,1) times Scale, by schedule and draw index
Schedules == {"lo", "hi", "mid", "lohi", "hilo"}
Draw(sched, k) ==
  CASE sched = "lo"   -> 0
    [] sched = "hi"   -> Scale - 1
    [] sched = "mid"  -> Scale \div 2
    [] sched = "lohi" -> IF k % 2 = 0 THEN 0 ELSE Scale - 1
    [] sched = "hilo" -> IF k % 2 = 0 THEN Scale - 1 ELSE 0

-----------------------------------------------------------------------------
(* Locations *)

Loc(city, country, lat, lon) ==
  [city |-> city, country |-> country, coordinates |-> [lat |-> lat, lon |-> lon]]

\* coordinates in 1e-4 degrees
Sydney == Loc("Sydney", "Australia", -338688, 1512093)
Mumbai == Loc("Mumbai", "India", 190760, 728777)
Delhi == Loc("Delhi", "India", 287041, 771025)
Springfield == Loc("Springfield", "USA", 397817, -896501)

-----------------------------------------------------------------------------
(* Synthetic data generator *)

getLocationBaseAQI(city) ==
  CASE city = "New York" -> 85      [] city = "London" -> 65
    [] city = "Tokyo" -> 75         [] city = "Mumbai" -> 150
    [] city = "Beijing" -> 120      [] city = "Los Angeles" -> 95
    [] city = "Paris" -> 70         [] city = "Sydney" -> 45
    [] city = "Sao Paulo" -> 110    [] city = "Cairo" -> 140
    [] city = "Moscow" -> 90        [] city = "Bangkok" -> 130
    [] city = "Mexico City" -> 135  [] city = "Jakarta" -> 125
    [] city = "Delhi" -> 160        [] city = "Current Location" -> 80
    [] OTHER -> 80

getLocationAQIFactors(city) ==
  CASE city = "Beijing" -> [baseVariation |-> 20]
    [] city = "Mumbai" -> [baseVariation |-> 25]
    [] city = "Los Angeles" -> [baseVariation |-> 10]
    [] city = "London" -> [baseVariation |-> -5]
    [] city = "Sydney" -> [baseVariation |-> -15]
    [] city = "Tokyo" -> [baseVariation |-> 5]
    [] OTHER -> [baseVariation |-> 0]

\* mutant: the rounded value is not clamped
MockAqiValueUnclamped(baseAqi, variation) == MathRound(baseAqi * Scale + variation)

\* Math.max(10, Math.min(300, Math.round(baseAqi + variation)))
MockAqiValue(baseAqi, variation) ==
  Max(10, Min(300, MathRound(baseAqi * Scale + variation)))

getMockAQI(location, t, sched) ==
  LET baseAqi == getLocationBaseAQI(location.city)
      timeOfDay == getHours(t)
      timeVariation == SinPi12(timeOfDay - 6) * 20
      randomVariation == (Draw(sched, 0) - Scale \div 2) * 30
      weatherFactor == IF Draw(sched, 1) > 7 * (Scale \div 10) THEN -20 * Scale ELSE 0
      variation == timeVariation + randomVariation + weatherFactor
      aqi == MockAqiValue(baseAqi, variation)
  IN [aqi |-> aqi,
      pm25 |-> MathRound(aqi * 6 * (Scale \div 10) + Draw(sched, 2) * 20),
      pm10 |-> MathRound(aqi * 8 * (Scale \div 10) + Draw(sched, 3) * 30),
      o3 |-> MathRound(aqi * 4 * (Scale \div 10) + Draw(sched, 4) * 15),
      no2 |-> MathRound(aqi * 3 * (Scale \div 10) + Draw(sched, 5) * 10),
      so2 |-> MathRound(aqi * 2 * (Scale \div 10) + Draw(sched, 6) * 8),
      co |-> MathRound(aqi * 10 * Scale + Draw(sched, 7) * 500),
      timestamp |-> t,
      location |-> location]

\* Math.max(10, Math.min(300, x)) on the running baseAqi
ClampBaseAqi(x) == Max(10 * Scale, Min(300 * Scale, x))

\* Math.round(baseAqi + locationFactors.baseVariation)
ForecastPointAqi(baseAqi, baseVariation) == MathRound(baseAqi + baseVariation * Scale)

\* weeklyTrend of generateRealisticForecast; historicalData is the list of its aqi values
WeeklyTrend(currentAqi, historicalData) ==
  LET RECURSIVE Sum(_)
      Sum(s) == IF s = <<>> THEN 0 ELSE Head(s) + Sum(Tail(s))
  IN IF Len(historicalData) > 0
       THEN (currentAqi * Scale - (Sum(historicalData) * Scale) \div Len(historicalData)) \div 7
       ELSE 0

\* mutant: the points are spaced by minutes
PointTimestampMinutes(t, i) == t + i * 60 * 1000

\* new Date(now.getTime() + i * 60 * 60 * 1000)
PointTimestamp(t, i) == t + i * 60 * 60 * 1000

\* one iteration of the loop of generateRealisticForecast: the new baseAqi
ForecastBaseStep(baseAqi, i, t, weeklyTrend, sched) ==
  LET timestamp == PointTimestamp(t, i)
      hour == getHours(timestamp)
      dayOfWeek == getDay(timestamp)
      rushHourFactor == IF (hour >= 7 /\ hour <= 9) \/ (hour >= 17 /\ hour <= 19) THEN 15 ELSE 0
      nightTimeFactor == IF hour >= 22 \/ hour <= 6 THEN -10 ELSE 0
      weekendFactor == IF dayOfWeek = 0 \/ dayOfWeek = 6 THEN -5 ELSE 0
      weatherVariation == SinPi12(i) * 8
      randomVariation == (Draw(sched, 3 * i) - Scale \div 2) * 10
      totalVariation == (rushHourFactor + nightTimeFactor + weekendFactor) * Scale
                        + weatherVariation + randomVariation + (weeklyTrend * i) \div 24
  IN ClampBaseAqi(baseAqi + totalVariation \div 10)

ForecastPoint(timestamp, aqi, r1, r2) ==
  [timestamp |-> timestamp,
   aqi |-> aqi,
   pm25 |-> MathRound(aqi * 6 * (Scale \div 10) + r1 * 10),
   pm10 |-> MathRound(aqi * 8 * (Scale \div 10) + r2 * 15)]

generateRealisticForecast(currentAqi, location, historicalData, t, sched) ==
  LET weeklyTrend == WeeklyTrend(currentAqi, historicalData)
      locationFactors == getLocationAQIFactors(location.city)
      RECURSIVE Loop(_, _, _)
      Loop(i, baseAqi, forecast) ==
        IF i < 48
          THEN LET next == ForecastBaseStep(baseAqi, i, t, weeklyTrend, sched)
                   aqi == ForecastPointAqi(next, locationFactors.baseVariation)
               IN Loop(i + 1, next,
                       Append(forecast, ForecastPoint(PointTimestamp(t, i), aqi,
                                                      Draw(sched, 3 * i + 1), Draw(sched, 3 * i + 2))))
          ELSE forecast
  IN Loop(0, currentAqi * Scale, <<>>)

getMockForecast(t, sched) ==
  LET RECURSIVE Loop(_, _, _)
      Loop(i, currentAqi, forecast) ==
        IF i < 48
          THEN LET hourlyChange == (Draw(sched, 3 * i + 1) - Scale \div 2) * 20
                   timeOfDayFactor == SinPi12(i % 24) * 15
                   next == Max(20 * Scale, Min(200 * Scale, currentAqi + hourlyChange + timeOfDayFactor))
                   aqi == MathRound(next)
               IN Loop(i + 1, next,
                       Append(forecast, ForecastPoint(PointTimestamp(t, i), aqi,
                                                      Draw(sched, 3 * i + 2), Draw(sched, 3 * i + 3))))
          ELSE forecast
  IN Loop(0, 80 * Scale + Draw(sched, 0) * 60, <<>>)

-----------------------------------------------------------------------------
(* Upstream source adapters of the aggregator.                             *)
(* An optional field of a provider payload is <<>> (absent) or <<v>>.      *)
(* An axios call settles with [kind |-> "reject"] (network error, non-2xx  *)
(* status, timeout) or [kind |-> "resolve", data |-> response.data].       *)
(* An adapter returns Returned(v) or Thrown.                               *)

None == <<>>
Some(v) == <<v>>
\* o?.v || d on a number, o || d on a string
NumOr(o, d) == IF o = None \/ o[1] = 0 THEN d ELSE o[1]
StrOr(o, d) == IF o = None \/ o[1] = "" THEN d ELSE o[1]

Thrown == [threw |-> TRUE]
Returned(v) == [threw |-> FALSE, value |-> v]

Sources == <<"WAQI", "OpenWeather", "IQAir">>
SourceNames == {Sources[i] : i \in 1..Len(Sources)}

\* import.meta.env.VITE_*_API_KEY: not set, set to the text the README and the
\* setup page show in their instructions, or set to a key the provider issued
KeyUnset == ""
KeyPlaceholder == "your_key_here"
KeyIssued == "issued"
KeyValues == {KeyUnset, KeyPlaceholder, KeyIssued}

\* this.X_API_KEY as a condition: any non-empty string is truthy
HasKey(source) == keys[source] # KeyUnset

\* mutant: the inline copy falls back to 0 like the pollutant fields
InlineOpenWeatherAQIZeroDefault(owAqi) ==
  CASE owAqi = Some(1) -> 25
    [] owAqi = Some(2) -> 75
    [] owAqi = Some(3) -> 125
    [] owAqi = Some(4) -> 175
    [] owAqi = Some(5) -> 225
    [] OTHER -> 0

\* the inline aqiMap of getOpenWeatherAQI: aqiMap[data.main.aqi] || 50
InlineOpenWeatherAQI(owAqi) ==
  CASE owAqi = Some(1) -> 25
    [] owAqi = Some(2) -> 75
    [] owAqi = Some(3) -> 125
    [] owAqi = Some(4) -> 175
    [] owAqi = Some(5) -> 225
    [] OTHER -> 50

convertOpenWeatherAQI(owAqi) ==
  CASE owAqi = Some(1) -> 25
    [] owAqi = Some(2) -> 75
    [] owAqi = Some(3) -> 125
    [] owAqi = Some(4) -> 175
    [] owAqi = Some(5) -> 225
    [] OTHER -> 50

getWAQIData(location, hasKey, resp, t) ==
  IF ~hasKey THEN Thrown
  ELSE IF resp.kind = "reject" THEN Thrown
  ELSE IF resp.data.status # "ok" THEN Thrown
  ELSE IF resp.data.data = None THEN Thrown        \* TypeError on data.iaqi
  ELSE LET data == resp.data.data[1]
           iaqi == IF data.iaqi = None
                     THEN [pm25 |-> None, pm10 |-> None, o3 |-> None,
                           no2 |-> None, so2 |-> None, co |-> None]
                     ELSE data.iaqi[1]
       IN Returned([aqi |-> NumOr(data.aqi, 0),
                    pm25 |-> NumOr(iaqi.pm25, 0),
                    pm10 |-> NumOr(iaqi.pm10, 0),
                    o3 |-> NumOr(iaqi.o3, 0),
                    no2 |-> NumOr(iaqi.no2, 0),
                    so2 |-> NumOr(iaqi.so2, 0),
                    co |-> NumOr(iaqi.co, 0),
                    timestamp |-> IF data.time = None THEN t ELSE data.time[1],
                    location |-> [city |-> StrOr(data.city, location.city),
                                  country |-> location.country,
                                  coordinates |-> location.coordinates]])

getOpenWeatherAQI(location, hasKey, resp, t) ==
  IF ~hasKey THEN Thrown
  ELSE IF resp.kind = "reject" THEN Thrown
  ELSE IF resp.data.list = <<>> THEN Thrown        \* TypeError on list[0].components
  ELSE LET data == resp.data.list[1]
           components == data.components
       IN Returned([aqi |-> InlineOpenWeatherAQI(data.main.aqi),
                    pm25 |-> NumOr(components.pm2_5, 0),
                    pm10 |-> NumOr(components.pm10, 0),
                    o3 |-> NumOr(components.o3, 0),
                    no2 |-> NumOr(components.no2, 0),
                    so2 |-> NumOr(components.so2, 0),
                    co |-> NumOr(components.co, 0),
                    timestamp |-> data.dt * 1000,
                    location |-> location])

getIQAirData(location, hasKey, resp, t) ==
  IF ~hasKey THEN Thrown
  ELSE IF resp.kind = "reject" THEN Thrown
  ELSE IF resp.data.status # "success" THEN Thrown
  ELSE IF resp.data.data = None THEN Thrown        \* TypeError on data.current
  ELSE LET data == resp.data.data[1]
           pollution == data.pollution
       IN Returned([aqi |-> NumOr(pollution.aqius, 0),
                    pm25 |-> NumOr(pollution.p2, 0),
                    pm10 |-> NumOr(pollution.p1, 0),
                    o3 |-> NumOr(pollution.o3, 0),
                    no2 |-> NumOr(pollution.n2, 0),
                    so2 |-> NumOr(pollution.s2, 0),
                    co |-> NumOr(pollution.co, 0),
                    timestamp |-> IF pollution.ts = None THEN t ELSE pollution.ts[1],
                    location |-> [city |-> StrOr(data.city, location.city),
                                  country |-> StrOr(data.country, location.country),
                                  coordinates |-> location.coordinates]])

\* apis[i]() of getCurrentAQI
ApiCall(i, location, hasKey, resp, t) ==
  CASE i = 1 -> getWAQIData(location, hasKey, resp, t)
    [] i = 2 -> getOpenWeatherAQI(location, hasKey, resp, t)
    [] i = 3 -> getIQAirData(location, hasKey, resp, t)

(* Provider payloads the environment may answer with *)

Reject == [kind |-> "reject"]
Resolve(d) == [kind |-> "resolve", data |-> d]

NoPollutants == [pm25 |-> None, pm10 |-> None, o3 |-> None, no2 |-> None, so2 |-> None, co |-> None]

WAQIResponses(t) ==
  { Reject,
    Resolve([status |-> "error", data |-> None]),
    Resolve([status |-> "ok", data |-> None]),
    Resolve([status |-> "ok",
             data |-> Some([aqi |-> Some(152), iaqi |-> Some([NoPollutants EXCEPT !.pm25 = Some(57)]),
                            time |-> Some(t), city |-> Some("Station A")])]),
    Resolve([status |-> "ok",
             data |-> Some([aqi |-> None, iaqi |-> None, time |-> None, city |-> None])]) }

OwComponents == [pm2_5 |-> Some(12), pm10 |-> None, o3 |-> Some(60), no2 |-> None, so2 |-> None, co |-> Some(201)]
OwItem(k, t) == [main |-> [aqi |-> k], components |-> OwComponents, dt |-> t \div 1000]

OpenWeatherResponses(t) ==
  { Reject,
    Resolve([list |-> <<>>]),
    Resolve([list |-> <<OwItem(Some(2), t)>>]),
    Resolve([list |-> <<OwItem(Some(5), t)>>]) }

IQAirResponses(t) ==
  { Reject,
    Resolve([status |-> "fail", data |-> None]),
    Resolve([status |-> "success", data |-> None]),
    Resolve([status |-> "success",
             data |-> Some([city |-> None, country |-> None,
                            pollution |-> [aqius |-> Some(300), p2 |-> None, p1 |-> None, o3 |-> None,
                                           n2 |-> None, s2 |-> None, co |-> None, ts |-> None]])]) }

Responses(i, t) ==
  CASE i = 1 -> WAQIResponses(t)
    [] i = 2 -> OpenWeatherResponses(t)
    [] i = 3 -> IQAirResponses(t)
    [] OTHER -> {}

HistoryResponses(t) ==
  { Reject,
    Resolve([list |-> None]),
    Resolve([list |-> Some(<<>>)]),
    Resolve([list |-> Some(<<OwItem(Some(1), t), OwItem(Some(1), t)>>)]),
    Resolve([list |-> Some(<<OwItem(Some(5), t), OwItem(None, t), OwItem(Some(4), t)>>)]) }

\* Promise.all of the two axios calls, then generateRealisticForecast
getOpenWeatherForecast(location, current, historical, t, sched) ==
  IF current.kind = "reject" \/ historical.kind = "reject" THEN Thrown
  ELSE IF current.data.list = <<>> THEN Thrown        \* TypeError on list[0].main
  ELSE IF historical.data.list = None THEN Thrown     \* TypeError on list.map
  ELSE LET currentAqi == convertOpenWeatherAQI(current.data.list[1].main.aqi)
           items == historical.data.list[1]
           historicalData == [k \in 1..Len(items) |-> convertOpenWeatherAQI(items[k].main.aqi)]
       IN Returned(generateRealisticForecast(currentAqi, location, historicalData, t, sched))

-----------------------------------------------------------------------------
(* Aggregator: AQIService.getCurrentAQI and AQIService.getForecast         *)

CACHE_DURATION == 5 * 60 * 1000

Locations == {Sydney, Springfield}
ForecastLocations == {Sydney}

\* the call sites of getCurrentAQI and of getForecast
AqiCallers == {"useAQI", "AQIMap"}
ForecastCallers == {"useForecast"}
Callers == AqiCallers \cup ForecastCallers

cacheKey(location) ==
  <<"aqi", location.city, location.coordinates.lat, location.coordinates.lon>>

Idle == [op |-> "none", pc |-> "idle", location |-> None, idx |-> 0, attempts |-> <<>>]

NoReturn == [caller |-> "none", op |-> "none", location |-> None, threw |-> FALSE,
             value |-> None, servedBy |-> "none", path |-> "none", attempts |-> <<>>, at |-> -1]

\* the source attempt apis[i]() that has been started
Attempt(i) == [source |-> Sources[i], network |-> HasKey(Sources[i]), status |-> "pending"]

SettleLast(attempts, status) ==
  [attempts EXCEPT ![Len(attempts)] = [@ EXCEPT !.status = status]]

\* mutant: an entry exactly CACHE_DURATION old still counts as fresh
CacheHitInclusive(key, t) ==
  /\ key \in DOMAIN cache
  /\ t - cache[key].timestamp <= CACHE_DURATION

\* cached && Date.now() - cached.timestamp < CACHE_DURATION
CacheHit(key, t) ==
  /\ key \in DOMAIN cache
  /\ t - cache[key].timestamp < CACHE_DURATION

\* this.cache.set(cacheKey, { data, timestamp: Date.now() })
CacheSet(key, data, t) == (key :> [data |-> data, timestamp |-> t]) @@ cache

\* lines 182-188 of getForecast: generateRealisticForecast(currentData.aqi, location)
\* inside try, getMockForecast() in its catch
ForecastFromCurrent(data, location, t, sched) ==
  LET r == Returned(generateRealisticForecast(data.aqi, location, <<>>, t, sched))
  IN IF r.threw
       THEN [path |-> "mock", value |-> getMockForecast(t, sched)]
       ELSE [path |-> "current", value |-> r.value]

\* getCurrentAQI has produced data: it returns to its caller, which for getForecast
\* is line 183
ReturnCurrent(c, call, data, servedBy, sched) ==
  LET base == [caller |-> c, op |-> call.op, location |-> call.location, threw |-> FALSE,
               value |-> Some(data), servedBy |-> servedBy, path |-> "none",
               attempts |-> call.attempts, at |-> now]
  IN IF call.op = "getCurrentAQI"
       THEN base
       ELSE LET f == ForecastFromCurrent(data, call.location, now, sched)
            IN [base EXCEPT !.value = Some(f.value), !.path = f.path]

\* the cache after getCurrentAQI fell through to the mock reading (lines 48-50)
CacheAfterMock(key, data, t) == cache

\* getCurrentAQI up to its first await: the cache check, then apis[0]()
EnterCurrent(c, call, sched) ==
  IF CacheHit(cacheKey(call.location), now)
    THEN /\ returned' = ReturnCurrent(c, call, cache[cacheKey(call.location)].data, "cache", sched)
         /\ calls' = [calls EXCEPT ![c] = Idle]
    ELSE /\ calls' = [calls EXCEPT ![c] = [call EXCEPT !.pc = "await", !.idx = 1,
                                                       !.attempts = <<Attempt(1)>>]]
         /\ UNCHANGED returned

CallGetCurrentAQI(c, loc) ==
  /\ returned = NoReturn
  /\ calls[c].pc = "idle"
  /\ EnterCurrent(c, [Idle EXCEPT !.op = "getCurrentAQI", !.location = loc], "mid")
  /\ UNCHANGED <<now, keys, cache, searchVars, uiVars>>

\* what the awaited apis[idx]() settles with
ApiResult(call, resp) ==
  ApiCall(call.idx, call.location, HasKey(Sources[call.idx]), resp, now)

\* await apiCall() returns data: cache it and return it (lines 38-41)
SourceSucceeds(c, resp, sched) ==
  /\ returned = NoReturn
  /\ calls[c].pc = "await"
  /\ LET call == calls[c]
         r == ApiResult(call, resp)
     IN /\ ~r.threw
        /\ cache' = CacheSet(cacheKey(call.location), r.value, now)
        /\ returned' = ReturnCurrent(c, [call EXCEPT !.attempts = SettleLast(@, "ok")],
                                     r.value, Sources[call.idx], sched)
        /\ calls' = [calls EXCEPT ![c] = Idle]
  /\ UNCHANGED <<now, keys, searchVars, uiVars>>

\* mutant: a failed source is tried again before the next one
SourceFailsRetries(c, resp) ==
  /\ returned = NoReturn
  /\ calls[c].pc = "await"
  /\ LET call == calls[c]
     IN /\ ApiResult(call, resp).threw
        /\ call.idx < Len(Sources)
        /\ calls' = [calls EXCEPT ![c] =
              LET again == IF Len(call.attempts) = call.idx THEN call.idx ELSE call.idx + 1
              IN [call EXCEPT !.idx = again,
                              !.attempts = Append(SettleLast(@, "failed"), Attempt(again))]]
  /\ UNCHANGED <<now, keys, cache, returned, searchVars, uiVars>>

\* await apiCall() throws and a source is left: continue with the next one (lines 42-45)
SourceFails(c, resp) ==
  /\ returned = NoReturn
  /\ calls[c].pc = "await"
  /\ LET call == calls[c]
     IN /\ ApiResult(call, resp).threw
        /\ call.idx < Len(Sources)
        /\ calls' = [calls EXCEPT ![c] =
              [call EXCEPT !.idx = call.idx + 1,
                           !.attempts = Append(SettleLast(@, "failed"), Attempt(call.idx + 1))]]
  /\ UNCHANGED <<now, keys, cache, returned, searchVars, uiVars>>

\* mutant: the failure of the last source is passed on to the caller
AllSourcesFailThrows(c, resp, schedMock, sched) ==
  /\ returned = NoReturn
  /\ calls[c].pc = "await"
  /\ LET call == calls[c]
     IN /\ ApiResult(call, resp).threw
        /\ call.idx = Len(Sources)
        /\ returned' = [NoReturn EXCEPT !.caller = c, !.op = call.op, !.location = call.location,
                                        !.threw = TRUE, !.servedBy = "mock", !.at = now,
                                        !.attempts = SettleLast(call.attempts, "failed")]
        /\ calls' = [calls EXCEPT ![c] = Idle]
  /\ UNCHANGED <<now, keys, cache, searchVars, uiVars>>

\* the last apiCall() throws: return this.getMockAQI(location) (lines 48-50)
AllSourcesFail(c, resp, schedMock, sched) ==
  /\ returned = NoReturn
  /\ calls[c].pc = "await"
  /\ LET call == calls[c]
         mock == getMockAQI(call.location, now, schedMock)
     IN /\ ApiResult(call, resp).threw
        /\ call.idx = Len(Sources)
        /\ cache' = CacheAfterMock(cacheKey(call.location), mock, now)
        /\ returned' = ReturnCurrent(c, [call EXCEPT !.attempts = SettleLast(@, "failed")],
                                     mock, "mock", sched)
        /\ calls' = [calls EXCEPT ![c] = Idle]
  /\ UNCHANGED <<now, keys, searchVars, uiVars>>

CallGetForecast(c, loc, sched) ==
  /\ returned = NoReturn
  /\ calls[c].pc = "idle"
  /\ LET call == [Idle EXCEPT !.op = "getForecast", !.location = loc]
     IN IF HasKey("OpenWeather")
          THEN /\ calls' = [calls EXCEPT ![c] = [call EXCEPT !.pc = "awaitForecast"]]
               /\ UNCHANGED returned
          ELSE EnterCurrent(c, call, sched)
  /\ UNCHANGED <<now, keys, cache, searchVars, uiVars>>

\* await this.getOpenWeatherForecast(location) settles
SettleForecast(c, current, historical, sched) ==
  /\ returned = NoReturn
  /\ calls[c].pc = "awaitForecast"
  /\ LET call == calls[c]
         r == getOpenWeatherForecast(call.location, current, historical, now, sched)
     IN IF ~r.threw
          THEN /\ returned' = [caller |-> c, op |-> call.op, location |-> call.location,
                               threw |-> FALSE, value |-> Some(r.value),
                               servedBy |-> "OpenWeather", path |-> "openweather",
                               attempts |-> <<>>, at |-> now]
               /\ calls' = [calls EXCEPT ![c] = Idle]
          ELSE EnterCurrent(c, call, sched)
  /\ UNCHANGED <<now, keys, cache, searchVars, uiVars>>

\* the call sites of SearchService
SearchCallers == {"LocationSearch", "AQIService"}

\* the invocations of debouncedSearch that can be awaiting searchLocations at once
ComponentSlots == {"LocationSearch", "LocationSearch2"}
SearchSlots == SearchCallers \cup ComponentSlots

SearchIdle ==
  [pc |-> "idle", query |-> <<>>, currentLocation |-> <<>>,
   options |-> [includeStations |-> TRUE, includeCoordinates |-> TRUE, maxResults |-> 12]]

NoSearchReturn ==
  [caller |-> "none", op |-> "none", query |-> <<>>, currentLocation |-> <<>>,
   options |-> [includeStations |-> TRUE, includeCoordinates |-> TRUE, maxResults |-> 12],
   lat |-> 0, lon |-> 0, outcome |-> "none", threw |-> FALSE, value |-> <<>>,
   path |-> "none", served |-> {}, env |-> <<>>, at |-> -1]

\* LocationSearch before it is mounted, useAQI without a location
Unmounted ==
  [query |-> <<>>, debounce |-> FALSE, results |-> <<>>, showResults |-> FALSE,
   shownFor |-> <<>>, started |-> <<>>, favorites |-> <<>>, recentSearches |-> <<>>]

NoLocation ==
  [location |-> <<>>, data |-> <<>>, due |-> <<>>, fetch |-> "none", refreshes |-> 0,
   waited |-> FALSE]

UiInit == locationSearch = Unmounted /\ aqiHook = NoLocation

SearchInit ==
  /\ searchCache = <<>>
  /\ searchCalls = [c \in SearchSlots |-> SearchIdle]
  /\ searchReturned = NoSearchReturn

\* the caller's continuation takes the value its await resolved with
Deliver ==
  /\ returned # NoReturn
  /\ returned' = NoReturn
  /\ UNCHANGED <<now, keys, cache, calls, searchVars, uiVars>>

Tick ==
  /\ returned = NoReturn
  /\ now < MaxTicks * MsPerTick
  /\ now' = now + MsPerTick
  /\ UNCHANGED <<keys, cache, calls, returned, searchVars, uiVars>>

Init ==
  /\ now = 0
  /\ keys \in [SourceNames -> {KeyUnset, KeyIssued}]
  /\ cache = <<>>
  /\ calls = [c \in Callers |-> Idle]
  /\ returned = NoReturn
  /\ SearchInit
  /\ UiInit

\* the random draws a call of op consumes in generateRealisticForecast
ForecastDraws(op) == IF op = "getForecast" THEN Schedules ELSE {"mid"}

SettleSomeSource(cs) ==
  \E c \in cs : \E resp \in Responses(calls[c].idx, now) :
    \/ \E sf \in ForecastDraws(calls[c].op) : SourceSucceeds(c, resp, sf)
    \/ SourceFails(c, resp)
    \/ \E sm \in Schedules, sf \in ForecastDraws(calls[c].op) : AllSourcesFail(c, resp, sm, sf)

\* getCurrentAQI alone, called from its call sites
Next ==
  \/ Tick
  \/ Deliver
  \/ \E c \in AqiCallers, loc \in Locations : CallGetCurrentAQI(c, loc)
  \/ SettleSomeSource(AqiCallers)

Spec == Init /\ [][Next]_vars

\* one consumer of getForecast and getCurrentAQI, calling them one after the other
NextForecast ==
  \/ Tick
  \/ Deliver
  \/ \E c \in ForecastCallers, loc \in ForecastLocations : CallGetCurrentAQI(c, loc)
  \/ SettleSomeSource(ForecastCallers)
  \/ \E c \in ForecastCallers, loc \in ForecastLocations, sf \in Schedules : CallGetForecast(c, loc, sf)
  \/ \E c \in ForecastCallers, sf \in Schedules :
        \E current \in OpenWeatherResponses(now), historical \in HistoryResponses(now) :
          SettleForecast(c, current, historical, sf)

SpecForecast == Init /\ [][NextForecast]_vars

-----------------------------------------------------------------------------
(* The synthetic generators and the AQI conversions, applied to drawn inputs *)

GenLoc(city) == Loc(city, "", 0, 0)

MockCities ==
  {"New York", "London", "Tokyo", "Mumbai", "Beijing", "Los Angeles", "Paris", "Sydney",
   "Sao Paulo", "Cairo", "Moscow", "Bangkok", "Mexico City", "Jakarta", "Delhi",
   "Current Location", "Springfield"}
ForecastCities == {"Mumbai", "Sydney", "Springfield"}
StartAqis == {0, 10, 150, 300, 500}
OwAqiInputs == {None} \cup {Some(k) : k \in -1..7}

Generated(op, path, location, value) ==
  [NoReturn EXCEPT !.caller = "generator", !.op = op, !.path = path,
                   !.location = location, !.value = Some(value), !.at = now]

ApplyGetMockAQI(city, sched) ==
  /\ returned = NoReturn
  /\ returned' = Generated("getMockAQI", "none", GenLoc(city), getMockAQI(GenLoc(city), now, sched))
  /\ UNCHANGED <<now, keys, cache, calls, searchVars, uiVars>>

\* the same OpenWeather value through getOpenWeatherAQI and through convertOpenWeatherAQI
ApplyConversions(owAqi) ==
  /\ returned = NoReturn
  /\ returned' = Generated("convertOpenWeatherAQI", "none", None,
        [input |-> owAqi,
         inline |-> getOpenWeatherAQI(Springfield, TRUE, Resolve([list |-> <<OwItem(owAqi, now)>>]), now).value.aqi,
         helper |-> convertOpenWeatherAQI(owAqi)])
  /\ UNCHANGED <<now, keys, cache, calls, searchVars, uiVars>>

ApplyOpenWeatherForecast(city, current, historical, sched) ==
  /\ returned = NoReturn
  /\ LET r == getOpenWeatherForecast(GenLoc(city), current, historical, now, sched)
     IN /\ ~r.threw
        /\ returned' = Generated("getForecast", "openweather", GenLoc(city), r.value)
  /\ UNCHANGED <<now, keys, cache, calls, searchVars, uiVars>>

ApplyForecastFromCurrent(city, aqi, sched) ==
  /\ returned = NoReturn
  /\ LET f == ForecastFromCurrent([aqi |-> aqi], GenLoc(city), now, sched)
     IN returned' = Generated("getForecast", f.path, GenLoc(city), f.value)
  /\ UNCHANGED <<now, keys, cache, calls, searchVars, uiVars>>

ApplyGetMockForecast(sched) ==
  /\ returned = NoReturn
  /\ returned' = Generated("getForecast", "mock", None, getMockForecast(now, sched))
  /\ UNCHANGED <<now, keys, cache, calls, searchVars, uiVars>>

GenTick ==
  /\ returned = NoReturn
  /\ now < MaxGenHours * MsPerHour
  /\ now' = now + MsPerHour
  /\ UNCHANGED <<keys, cache, calls, returned, searchVars, uiVars>>

InitGen ==
  /\ now = 0
  /\ keys = [s \in SourceNames |-> KeyUnset]
  /\ cache = <<>>
  /\ calls = [c \in Callers |-> Idle]
  /\ returned = NoReturn
  /\ SearchInit
  /\ UiInit

NextGen ==
  \/ GenTick
  \/ Deliver
  \/ \E city \in MockCities, sched \in Schedules : ApplyGetMockAQI(city, sched)
  \/ \E owAqi \in OwAqiInputs : ApplyConversions(owAqi)
  \/ \E city \in ForecastCities, sched \in Schedules :
        \E current \in OpenWeatherResponses(now), historical \in HistoryResponses(now) :
          ApplyOpenWeatherForecast(city, current, historical, sched)
  \/ \E city \in ForecastCities, aqi \in StartAqis, sched \in Schedules :
        ApplyForecastFromCurrent(city, aqi, sched)
  \/ \E sched \in Schedules : ApplyGetMockForecast(sched)

SpecGen == InitGen /\ [][NextGen]_vars

-----------------------------------------------------------------------------
(* SearchService (src/unnamed/part_001): text.                             *)
(* A JavaScript string is the sequence of its characters, so that          *)
(* toLowerCase, includes, the coordinate pattern and toFixed are computed  *)
(* character by character.  Degrees are fixed-point with four decimals.    *)

Uppers == <<"A", "B", "C", "D", "E", "F", "G", "H", "I", "J", "K", "L", "M", "N", "O", "P", "Q",
    "R", "S", "T", "U", "V", "W", "X", "Y", "Z">>
Lowers == <<"a", "b", "c", "d", "e", "f", "g", "h", "i", "j", "k", "l", "m", "n", "o", "p", "q",
    "r", "s", "t", "u", "v", "w", "x", "y", "z">>
Digits == <<"0", "1", "2", "3", "4", "5", "6", "7", "8", "9">>

\* a string property that is absent (undefined)
UndefinedStr == <<"undefined">>

\* a numeric property that is absent (undefined): no number of degrees
UndefinedNum == -1000 * Scale

IndexOf(ch, seq) ==
  IF \E i \in 1..Len(seq) : seq[i] = ch
    THEN CHOOSE i \in 1..Len(seq) : seq[i] = ch
    ELSE 0

\* the lower-case letter of every upper-case letter
LowerCaseOf == [ch \in {Uppers[i] : i \in 1..Len(Uppers)} |-> Lowers[IndexOf(ch, Uppers)]]

toLowerCase(s) ==
  [i \in 1..Len(s) |-> IF s[i] \in DOMAIN LowerCaseOf THEN LowerCaseOf[s[i]] ELSE s[i]]

startsWith(s, p) == Len(p) <= Len(s) /\ SubSeq(s, 1, Len(p)) = p

includes(s, p) == \E k \in 0..(Len(s) - Len(p)) : SubSeq(s, k + 1, k + Len(p)) = p

IsDigit(ch) == IndexOf(ch, Digits) # 0
IsSpace(ch) == ch \in {" ", "\t", "\n"}

\* String.prototype.trim
RECURSIVE trimStart(_)
trimStart(s) == IF s # <<>> /\ IsSpace(s[1]) THEN trimStart(Tail(s)) ELSE s
RECURSIVE trimEnd(_)
trimEnd(s) == IF s # <<>> /\ IsSpace(s[Len(s)]) THEN trimEnd(SubSeq(s, 1, Len(s) - 1)) ELSE s
trim(s) == trimEnd(trimStart(s))

\* s.split(',')[0]
FirstField(s) ==
  IF IndexOf(",", s) = 0 THEN s ELSE SubSeq(s, 1, IndexOf(",", s) - 1)

\* the decimal digits of a natural number
RECURSIVE NatToString(_)
NatToString(n) ==
  IF n < 10 THEN <<Digits[n + 1]>> ELSE Append(NatToString(n \div 10), Digits[(n % 10) + 1])

RECURSIVE Pow10(_)
Pow10(k) == IF k = 0 THEN 1 ELSE 10 * Pow10(k - 1)

\* zero-padded to width w
RECURSIVE PadZeros(_, _)
PadZeros(s, w) == IF Len(s) >= w THEN s ELSE PadZeros(<<"0">> \o s, w)

\* magnitudes with a 5 in the fourth decimal whose double lies below the decimal,
\* so that toFixed(3) rounds them down
DoubleBelowDecimal == {235505}

\* Number.prototype.toFixed(digits), digits <= 4, of a fixed-point value
toFixedUnits(x, digits) ==
  LET mag == IF x < 0 THEN -x ELSE x
      unit == Pow10(4 - digits)
      half == (mag % unit) * 2 = unit
  IN IF half /\ mag \in DoubleBelowDecimal
       THEN mag \div unit
       ELSE (mag + unit \div 2) \div unit

toFixed(x, digits) ==
  LET n == toFixedUnits(x, digits)
      whole == NatToString(n \div Pow10(digits))
      frac == PadZeros(NatToString(n % Pow10(digits)), digits)
  IN (IF x < 0 THEN <<"-">> ELSE <<>>) \o whole \o <<".">> \o frac

\* the leading digits of s
RECURSIVE LeadingDigits(_)
LeadingDigits(s) ==
  IF s # <<>> /\ IsDigit(s[1]) THEN <<s[1]>> \o LeadingDigits(Tail(s)) ELSE <<>>

RECURSIVE DigitsValue(_)
DigitsValue(s) ==
  IF s = <<>> THEN 0 ELSE 10 * DigitsValue(SubSeq(s, 1, Len(s) - 1)) + (IndexOf(s[Len(s)], Digits) - 1)

\* the group -?\d+\.?\d* of coordPattern matches all of s
MatchesNumber(s) ==
  LET body == IF s # <<>> /\ s[1] = "-" THEN Tail(s) ELSE s
      whole == LeadingDigits(body)
      rest == SubSeq(body, Len(whole) + 1, Len(body))
  IN /\ whole # <<>>
     /\ \/ rest = <<>>
        \/ /\ rest[1] = "."
           /\ \A i \in 2..Len(rest) : IsDigit(rest[i])

\* parseFloat of a string matching -?\d+\.?\d*, to four decimals
parseFloat(s) ==
  LET neg == s[1] = "-"
      body == IF neg THEN Tail(s) ELSE s
      whole == LeadingDigits(body)
      frac == SubSeq(body, Len(whole) + 2, Len(body))
      frac4 == SubSeq(frac \o <<"0", "0", "0", "0">>, 1, 4)
      mag == DigitsValue(whole) * Scale + DigitsValue(frac4)
  IN IF neg THEN -mag ELSE mag

\* query.match(/^(-?\d+\.?\d*),\s*(-?\d+\.?\d*)$/): the two groups, or None
coordPattern(query) ==
  LET comma == IndexOf(",", query)
      first == SubSeq(query, 1, comma - 1)
      second == trimStart(SubSeq(query, comma + 1, Len(query)))
  IN IF comma # 0 /\ MatchesNumber(first) /\ MatchesNumber(second)
       THEN Some([lat |-> first, lon |-> second])
       ELSE None

\* the collation order of String.prototype.localeCompare on the characters in use
Collation == <<" ", ",", "-", ".", "0", "1", "2", "3", "4", "5", "6", "7", "8", "9", "a", "ã", "b",
    "c", "d", "e", "f", "g", "h", "i", "j", "k", "l", "m", "n", "o", "p", "q", "r", "s", "t", "u",
    "v", "w", "x", "y", "z">>

RECURSIVE CompareChars(_, _)
CompareChars(a, b) ==
  CASE a = <<>> /\ b = <<>> -> 0
    [] a = <<>> -> -1
    [] b = <<>> -> 1
    [] IndexOf(a[1], Collation) < IndexOf(b[1], Collation) -> -1
    [] IndexOf(a[1], Collation) > IndexOf(b[1], Collation) -> 1
    [] OTHER -> CompareChars(Tail(a), Tail(b))

\* a.localeCompare(b): letters compare without case first, lower case first on a tie
RECURSIVE CaseTie(_, _)
CaseTie(a, b) ==
  CASE a = <<>> \/ b = <<>> -> 0
    [] a[1] = b[1] -> CaseTie(Tail(a), Tail(b))
    [] IndexOf(a[1], Lowers) # 0 -> -1
    [] OTHER -> 1

localeCompare(a, b) ==
  IF CompareChars(toLowerCase(a), toLowerCase(b)) # 0
    THEN CompareChars(toLowerCase(a), toLowerCase(b))
    ELSE CaseTie(a, b)

-----------------------------------------------------------------------------
(* SearchService: relevance *)

\* one row of the matrix of levenshteinDistance: cells 0..Len(str1) of row j, from
\* row j - 1 (prev); row holds the cells 0..i-1 built so far (the test on next has
\* it computed before the next step)
RECURSIVE LevenshteinRow(_, _, _, _, _)
LevenshteinRow(prev, str1, ch, i, row) ==
  IF i > Len(str1) THEN row
  ELSE LET indicator == IF str1[i] = ch THEN 0 ELSE 1
           cell == Min(Min(row[i] + 1, prev[i + 1] + 1), prev[i] + indicator)
           next == Append(row, cell)
       IN IF Len(next) = i + 1 THEN LevenshteinRow(prev, str1, ch, i + 1, next) ELSE next

RECURSIVE LevenshteinRows(_, _, _, _)
LevenshteinRows(prev, str1, str2, j) ==
  IF j > Len(str2) THEN prev
  ELSE LET row == LevenshteinRow(prev, str1, str2[j], 1, <<j>>)
       IN IF Len(row) = Len(prev) THEN LevenshteinRows(row, str1, str2, j + 1) ELSE row

levenshteinDistance(str1, str2) ==
  LevenshteinRows([i \in 1..(Len(str1) + 1) |-> i - 1], str1, str2, 1)[Len(str1) + 1]

\* (longer.length - editDistance) / longer.length, as a fraction
calculateStringSimilarity(str1, str2) ==
  LET longer == IF Len(str1) > Len(str2) THEN str1 ELSE str2
      shorter == IF Len(str1) > Len(str2) THEN str2 ELSE str1
  IN IF Len(longer) = 0 THEN [num |-> 1, den |-> 1]
     ELSE [num |-> Len(longer) - levenshteinDistance(longer, shorter), den |-> Len(longer)]

\* relevance scores are kept times Scale
\* mutant: a name equal to the query scores like one that starts with it
calculateCityRelevanceNoExact(cityName, query) ==
  LET city == toLowerCase(cityName)
      q == toLowerCase(query)
      similarity == calculateStringSimilarity(city, q)
  IN CASE startsWith(city, q) -> 90 * Scale
       [] includes(city, <<" ">> \o q) -> 80 * Scale
       [] includes(city, q) -> 70 * Scale
       [] OTHER -> Max(0, (similarity.num * 60 * Scale) \div similarity.den)

calculateCityRelevance(cityName, query) ==
  LET city == toLowerCase(cityName)
      q == toLowerCase(query)
      similarity == calculateStringSimilarity(city, q)
  IN CASE city = q -> 100 * Scale
       [] startsWith(city, q) -> 90 * Scale
       [] includes(city, <<" ">> \o q) -> 80 * Scale
       [] includes(city, q) -> 70 * Scale
       [] OTHER -> Max(0, (similarity.num * 60 * Scale) \div similarity.den)

\* mutant: stations get no boost
calculateStationRelevanceNoBoost(stationName, query) ==
  calculateCityRelevance(stationName, query)

calculateStationRelevance(stationName, query) ==
  calculateCityRelevance(stationName, query) + 10 * Scale

-----------------------------------------------------------------------------
(* SearchService: results *)

SearchResult(city, country, state, lat, lon, relevanceScore, type) ==
  [city |-> city, country |-> country, state |-> state,
   coordinates |-> [lat |-> lat, lon |-> lon],
   relevanceScore |-> relevanceScore, type |-> type,
   distance |-> None, stationId |-> None, hasStation |-> FALSE]

Place(city, country, state, lat, lon) ==
  [city |-> city, country |-> country, state |-> state,
   coordinates |-> [lat |-> lat, lon |-> lon]]

predefinedLocations ==
  <<Place(<<"N", "e", "w", " ", "Y", "o", "r", "k">>, <<"U", "S", "A">>, <<"N", "e", "w", " ", "Y",
      "o", "r", "k">>, 407128, -740060),
    Place(<<"L", "o", "n", "d", "o", "n">>, <<"U", "K">>, UndefinedStr, 515074, -1278),
    Place(<<"T", "o", "k", "y", "o">>, <<"J", "a", "p", "a", "n">>, UndefinedStr, 356762, 1396503),
    Place(<<"M", "u", "m", "b", "a", "i">>, <<"I", "n", "d", "i", "a">>, <<"M", "a", "h", "a", "r", "a", "s", "h", "t", "r", "a">>, 190760, 728777),
    Place(<<"B", "e", "i", "j", "i", "n", "g">>, <<"C", "h", "i", "n", "a">>, UndefinedStr, 399042, 1164074),
    Place(<<"L", "o", "s", " ", "A", "n", "g", "e", "l", "e", "s">>, <<"U", "S", "A">>, <<"C", "a", "l", "i", "f", "o", "r", "n", "i", "a">>, 340522, -1182437),
    Place(<<"P", "a", "r", "i", "s">>, <<"F", "r", "a", "n", "c", "e">>, UndefinedStr, 488566, 23522),
    Place(<<"S", "y", "d", "n", "e", "y">>, <<"A", "u", "s", "t", "r", "a", "l", "i", "a">>, UndefinedStr, -338688, 1512093),
    Place(<<"S", "ã", "o", " ", "P", "a", "u", "l", "o">>, <<"B", "r", "a", "z", "i", "l">>, UndefinedStr, -235505, -466333),
    Place(<<"C", "a", "i", "r", "o">>, <<"E", "g", "y", "p", "t">>, UndefinedStr, 300444, 312357),
    Place(<<"M", "o", "s", "c", "o", "w">>, <<"R", "u", "s", "s", "i", "a">>, UndefinedStr, 557558, 376176),
    Place(<<"B", "a", "n", "g", "k", "o", "k">>, <<"T", "h", "a", "i", "l", "a", "n", "d">>, UndefinedStr, 137563, 1005018),
    Place(<<"M", "e", "x", "i", "c", "o", " ", "C", "i", "t", "y">>, <<"M", "e", "x", "i", "c", "o">>, UndefinedStr, 194326, -991332),
    Place(<<"J", "a", "k", "a", "r", "t", "a">>, <<"I", "n", "d", "o", "n", "e", "s", "i", "a">>, UndefinedStr, -62088, 1068456),
    Place(<<"D", "e", "l", "h", "i">>, <<"I", "n", "d", "i", "a">>, <<"D", "e", "l", "h", "i">>, 287041, 771025),
    Place(<<"S", "h", "a", "n", "g", "h", "a", "i">>, <<"C", "h", "i", "n", "a">>, UndefinedStr, 312304, 1214737),
    Place(<<"B", "e", "r", "l", "i", "n">>, <<"G", "e", "r", "m", "a", "n", "y">>, UndefinedStr, 525200, 134050),
    Place(<<"T", "o", "r", "o", "n", "t", "o">>, <<"C", "a", "n", "a", "d", "a">>, <<"O", "n", "t", "a", "r", "i", "o">>, 436532, -793832),
    Place(<<"S", "i", "n", "g", "a", "p", "o", "r", "e">>, <<"S", "i", "n", "g", "a", "p", "o", "r", "e">>, UndefinedStr, 13521, 1038198),
    Place(<<"D", "u", "b", "a", "i">>, <<"U", "A", "E">>, UndefinedStr, 252048, 552708)>>

\* the filter of searchPredefinedLocations
MatchesPredefined(location, queryLower) ==
  \/ includes(toLowerCase(location.city), queryLower)
  \/ includes(toLowerCase(location.country), queryLower)
  \/ (location.state # UndefinedStr /\ location.state # <<>>
        /\ includes(toLowerCase(location.state), queryLower))

\* filter and map of searchPredefinedLocations, before its slice
PredefinedMatches(query) ==
  LET found == SelectSeq(predefinedLocations,
                         LAMBDA location : MatchesPredefined(location, toLowerCase(query)))
  IN [i \in 1..Len(found) |->
        SearchResult(found[i].city, found[i].country, found[i].state,
                     found[i].coordinates.lat, found[i].coordinates.lon,
                     calculateCityRelevance(found[i].city, query), "city")]

slice(s, n) == SubSeq(s, 1, Min(Len(s), n))

searchPredefinedLocations(query) == slice(PredefinedMatches(query), 6)

-----------------------------------------------------------------------------
(* SearchService: adapters and strategies *)

\* response.data of the geocoder: null, or an array of place records
NullData == [isNull |-> TRUE, items |-> <<>>]
ListData(items) == [isNull |-> FALSE, items |-> items]

\* a promise that lost the race against the 8 s timer of searchLocations
TimedOut == [kind |-> "timeout"]

GeoItem(name, country, state, lat, lon) ==
  [name |-> name, country |-> country, state |-> state, lat |-> lat, lon |-> lon]

\* `Location ${lat.toFixed(4)}, ${lon.toFixed(4)}`
CoordinateLabel(lat, lon) ==
  <<"L", "o", "c", "a", "t", "i", "o", "n", " ">> \o toFixed(lat, 4) \o <<",",
      " ">> \o toFixed(lon, 4)

UnresolvedPlace(lat, lon) ==
  Place(CoordinateLabel(lat, lon), <<"U", "n", "k", "n", "o", "w", "n">>, UndefinedStr, lat, lon)

ResolvedPlaceUpstreamCoordinates(location, lat, lon) ==
  Place(location.name, location.country, location.state, location.lat, location.lon)

\* lines 405-410
ResolvedPlace(location, lat, lon) ==
  Place(location.name, location.country, location.state, lat, lon)

reverseGeocode(lat, lon, hasKey, resp) ==
  IF ~hasKey THEN Returned(UnresolvedPlace(lat, lon))
  ELSE IF resp.kind = "reject" THEN Returned(UnresolvedPlace(lat, lon))
  ELSE IF resp.data.isNull THEN Returned(UnresolvedPlace(lat, lon))   \* TypeError, caught
  ELSE IF Len(resp.data.items) > 0
    THEN Returned(ResolvedPlace(resp.data.items[1], lat, lon))
    ELSE Returned(UnresolvedPlace(lat, lon))

\* the query is a lat,lon pair in range: the pair, or None
ParsedCoordinates(query) ==
  LET match == coordPattern(query)
  IN IF match = None THEN None
     ELSE LET lat == parseFloat(match[1].lat)
              lon == parseFloat(match[1].lon)
          IN IF lat < -90 * Scale \/ lat > 90 * Scale \/ lon < -180 * Scale \/ lon > 180 * Scale
               THEN None
               ELSE Some([lat |-> lat, lon |-> lon])

searchByCoordinates(query, hasKey, resp) ==
  LET parsed == ParsedCoordinates(query)
  IN IF parsed = None THEN <<>>
     ELSE LET lat == parsed[1].lat
              lon == parsed[1].lon
              location == reverseGeocode(lat, lon, hasKey, resp)
          IN IF location.threw
               THEN <<SearchResult(toFixed(lat, 4) \o <<",", " ">> \o toFixed(lon, 4), <<"C", "o",
                   "o", "r", "d", "i", "n", "a", "t", "e", "s">>,
                                   UndefinedStr, lat, lon, 90 * Scale, "coordinate")>>
               ELSE <<SearchResult(location.value.city, location.value.country,
                                   location.value.state, location.value.coordinates.lat,
                                   location.value.coordinates.lon, 100 * Scale, "coordinate")>>

searchCities(query, hasKey, resp) ==
  IF ~hasKey THEN searchPredefinedLocations(query)
  ELSE IF resp.kind = "reject" THEN searchPredefinedLocations(query)
  ELSE IF resp.data.isNull THEN searchPredefinedLocations(query)      \* TypeError on map
  ELSE IF \E i \in 1..Len(resp.data.items) : resp.data.items[i].name = UndefinedStr
    THEN searchPredefinedLocations(query)                             \* TypeError on toLowerCase
  ELSE [i \in 1..Len(resp.data.items) |->
          SearchResult(resp.data.items[i].name, resp.data.items[i].country,
                       resp.data.items[i].state, resp.data.items[i].lat, resp.data.items[i].lon,
                       calculateCityRelevance(resp.data.items[i].name, query), "city")]

\* a record of the WAQI station search; geo is <<>> when absent
StationItem(name, country, geo, uid) ==
  [station |-> [name |-> name, country |-> country, geo |-> geo], uid |-> uid]

\* the filter of searchMonitoringStations
StationHasCoordinates(station) ==
  /\ Len(station.station.geo) = 2
  /\ station.station.geo[1] # 0
  /\ station.station.geo[2] # 0

StationResult(station, query) ==
  LET stationName == IF station.station.name \in {UndefinedStr, <<>>}
                       THEN <<>> ELSE station.station.name
      cityName == trim(FirstField(stationName))
      country == IF station.station.country \in {UndefinedStr, <<>>}
                   THEN <<"U", "n", "k", "n", "o", "w", "n">> ELSE station.station.country
  IN [SearchResult(cityName, country, UndefinedStr, station.station.geo[1],
                   station.station.geo[2], calculateStationRelevance(stationName, query),
                   "station")
        EXCEPT !.stationId = Some(station.uid), !.hasStation = TRUE]

searchMonitoringStations(query, hasKey, resp) ==
  IF ~hasKey THEN <<>>
  ELSE IF resp.kind = "reject" THEN <<>>
  ELSE IF resp.data.status # "ok" \/ resp.data.data = None THEN <<>>
  ELSE LET kept == SelectSeq(resp.data.data[1], StationHasCoordinates)
       IN slice([i \in 1..Len(kept) |-> StationResult(kept[i], query)], 6)

-----------------------------------------------------------------------------
(* SearchService: merge, deduplication, ranking *)

\* `${city.toLowerCase()}_${lat.toFixed(3)}_${lon.toFixed(3)}`
DedupeKey(location) ==
  <<toLowerCase(location.city), toFixed(location.coordinates.lat, 3),
    toFixed(location.coordinates.lon, 3)>>

\* the filter of removeDuplicates: the first result of every key
RECURSIVE FirstOfEachKey(_, _)
FirstOfEachKey(results, seen) ==
  IF results = <<>> THEN <<>>
  ELSE IF DedupeKey(results[1]) \in seen
    THEN FirstOfEachKey(Tail(results), seen)
    ELSE <<results[1]>> \o FirstOfEachKey(Tail(results), seen \cup {DedupeKey(results[1])})

\* mutant: every result is kept
removeDuplicatesKeepsAll(results) ==
  IF \E i \in 1..Len(results) :
       \/ results[i].city = UndefinedStr
       \/ results[i].coordinates.lat = UndefinedNum
       \/ results[i].coordinates.lon = UndefinedNum
    THEN Thrown
    ELSE Returned(results)

\* mutant: of the results that share a key the last one is kept
removeDuplicatesKeepsLast(results) ==
  IF \E i \in 1..Len(results) :
       \/ results[i].city = UndefinedStr
       \/ results[i].coordinates.lat = UndefinedNum
       \/ results[i].coordinates.lon = UndefinedNum
    THEN Thrown
    ELSE LET RECURSIVE LastOfEachKey(_)
             LastOfEachKey(rest) ==
               IF rest = <<>> THEN <<>>
               ELSE IF \E j \in 2..Len(rest) : DedupeKey(rest[j]) = DedupeKey(rest[1])
                 THEN LastOfEachKey(Tail(rest))
                 ELSE <<rest[1]>> \o LastOfEachKey(Tail(rest))
         IN Returned(LastOfEachKey(results))

\* location.city.toLowerCase() is a TypeError on a result without a city, and
\* location.coordinates.lat.toFixed(3) on one without coordinates
removeDuplicates(results) ==
  IF \E i \in 1..Len(results) :
       \/ results[i].city = UndefinedStr
       \/ results[i].coordinates.lat = UndefinedNum
       \/ results[i].coordinates.lon = UndefinedNum
    THEN Thrown
    ELSE Returned(FirstOfEachKey(results, {}))

\* great-circle distances in km (times Scale) from London, by the haversine
\* formula of calculateDistance with R = 6371
HaversineFromLondon ==
  (<<407128, -740060>> :> 55702221 @@
   <<515074, -1278>> :> 0 @@
   <<356762, 1396503>> :> 95585613 @@
   <<190760, 728777>> :> 71916965 @@
   <<399042, 1164074>> :> 81410570 @@
   <<340522, -1182437>> :> 87556023 @@
   <<488566, 23522>> :> 3435560 @@
   <<-338688, 1512093>> :> 169939334 @@
   <<-235505, -466333>> :> 94974010 @@
   <<300444, 312357>> :> 35113117 @@
   <<557558, 376176>> :> 25005547 @@
   <<137563, 1005018>> :> 95318186 @@
   <<194326, -991332>> :> 89287301 @@
   <<-62088, 1068456>> :> 117181427 @@
   <<287041, 771025>> :> 66968107 @@
   <<312304, 1214737>> :> 91967379 @@
   <<525200, 134050>> :> 9315694 @@
   <<436532, -793832>> :> 57124798 @@
   <<13521, 1038198>> :> 108478448 @@
   <<252048, 552708>> :> 54734297 @@
   <<356828, 1397594>> :> 95618554 @@
   <<407143, -740060>> :> 55701176 @@
   <<356824, 1397594>> :> 95618962 @@
   <<0, 0>> :> 57273741 @@
   <<0, 1000000>> :> 107062358 @@
   <<900000, 1800000>> :> 42801818 @@
   <<-900000, -1800000>> :> 157349049)

calculateDistance(lat1, lon1, lat2, lon2) ==
  IF <<lat1, lon1>> = <<lat2, lon2>> THEN 0 ELSE HaversineFromLondon[<<lat2, lon2>>]

typePriority(type) ==
  CASE type = "station" -> 3
    [] type = "city" -> 2
    [] type = "coordinate" -> 1
    [] type = "recent" -> 4
    [] type = "favorite" -> 5
    [] OTHER -> 0

\* the comparator of rankAndFilterResults
CompareResults(a, b) ==
  IF a.relevanceScore # b.relevanceScore THEN b.relevanceScore - a.relevanceScore
  ELSE IF typePriority(a.type) # typePriority(b.type)
    THEN typePriority(b.type) - typePriority(a.type)
  ELSE IF a.distance # None /\ b.distance # None THEN a.distance[1] - b.distance[1]
  ELSE localeCompare(a.city, b.city)

\* Array.prototype.sort is stable: x goes after the elements that do not follow it
RECURSIVE InsertSorted(_, _)
InsertSorted(sorted, x) ==
  IF sorted = <<>> THEN <<x>>
  ELSE IF CompareResults(sorted[1], x) <= 0
    THEN <<sorted[1]>> \o InsertSorted(Tail(sorted), x)
    ELSE <<x>> \o sorted

RECURSIVE SortResults(_, _)
\* (the test on next has it computed before the next step)
SortResults(results, sorted) ==
  IF results = <<>> THEN sorted
  ELSE LET next == InsertSorted(sorted, results[1])
       IN IF Len(next) > Len(sorted) THEN SortResults(Tail(results), next) ELSE next

\* lines 331-340: result.distance is assigned on the objects passed in
WithDistance(results, currentLocation) ==
  IF currentLocation = None THEN results
  ELSE [i \in 1..Len(results) |->
          [results[i] EXCEPT !.distance =
             Some(calculateDistance(currentLocation[1].coordinates.lat,
                                    currentLocation[1].coordinates.lon,
                                    results[i].coordinates.lat,
                                    results[i].coordinates.lon))]]

\* sorted is the array passed in after the call (sort works in place, on objects
\* it shares with the caller), value the array returned
rankAndFilterResults(results, query, currentLocation, maxResults) ==
  LET sorted == SortResults(WithDistance(results, currentLocation), <<>>)
  IN [sorted |-> sorted, value |-> slice(sorted, maxResults)]

-----------------------------------------------------------------------------
(* SearchService.searchLocations *)

SEARCH_CACHE_DURATION == 10 * 60 * 1000

Options(includeStations, includeCoordinates, maxResults) ==
  [includeStations |-> includeStations, includeCoordinates |-> includeCoordinates,
   maxResults |-> maxResults]

searchCacheKey(query, options) ==
  <<"search", toLowerCase(query), options.includeStations, options.includeCoordinates>>

SearchCacheHit(key, t) ==
  key \in DOMAIN searchCache /\ t < searchCache[key].expiresAt

\* what the strategies of one dispatch settle with
Outcomes(reverse, cities, stations) ==
  [reverse |-> reverse, cities |-> cities, stations |-> stations]

\* the response a strategy's own promise settles with, in time or late
Settled(outcome) ==
  IF outcome.kind = "timeout" /\ "late" \in DOMAIN outcome THEN outcome.late ELSE outcome

\* mutant: a strategy that lost its race is merged with what it completes with later
FulfilledValuesAwaitsLate(query, options, env) ==
  (IF options.includeCoordinates
     THEN searchByCoordinates(query, HasKey("OpenWeather"), Settled(env.reverse)) ELSE <<>>)
  \o searchCities(query, HasKey("OpenWeather"), Settled(env.cities))
  \o (IF options.includeStations /\ HasKey("WAQI")
        THEN searchMonitoringStations(query, HasKey("WAQI"), Settled(env.stations)) ELSE <<>>)
  \o searchPredefinedLocations(query)

\* the values of the fulfilled promises, in dispatch order (lines 63-99)
FulfilledValues(query, options, env) ==
  (IF options.includeCoordinates /\ env.reverse.kind # "timeout"
     THEN searchByCoordinates(query, HasKey("OpenWeather"), env.reverse) ELSE <<>>)
  \o (IF env.cities.kind # "timeout"
        THEN searchCities(query, HasKey("OpenWeather"), env.cities) ELSE <<>>)
  \o (IF options.includeStations /\ HasKey("WAQI") /\ env.stations.kind # "timeout"
        THEN searchMonitoringStations(query, HasKey("WAQI"), env.stations) ELSE <<>>)
  \o searchPredefinedLocations(query)

\* the network adapters whose data reached the merge
Served(query, options, env) ==
  {a \in {"reverse", "geocoder", "stations"} :
     \/ /\ a = "reverse"
        /\ options.includeCoordinates /\ ParsedCoordinates(query) # None
        /\ HasKey("OpenWeather") /\ env.reverse.kind = "resolve"
        /\ ~env.reverse.data.isNull /\ env.reverse.data.items # <<>>
     \/ /\ a = "geocoder"
        /\ HasKey("OpenWeather") /\ env.cities.kind = "resolve"
        /\ ~env.cities.data.isNull
        /\ \A i \in 1..Len(env.cities.data.items) : env.cities.data.items[i].name # UndefinedStr
     \/ /\ a = "stations"
        /\ options.includeStations /\ HasKey("WAQI") /\ env.stations.kind = "resolve"
        /\ env.stations.data.status = "ok" /\ env.stations.data.data # None}

SearchFallbackRethrows(query) == Thrown

\* the catch block of searchLocations, lines 114-118
SearchFallback(query) == Returned(searchPredefinedLocations(query))

\* lines 105-110: timestamp: Date.now(), expiresAt: Date.now() + this.CACHE_DURATION.
\* The clock is read twice: t for timestamp, tExpires for expiresAt
SearchCacheSet(key, data, t, tExpires) ==
  (key :> [data |-> data, timestamp |-> t, expiresAt |-> tExpires + SEARCH_CACHE_DURATION])
    @@ searchCache

SearchReturn(c, call, path, served, env, result) ==
  [NoSearchReturn EXCEPT !.caller = c, !.op = "searchLocations", !.query = call.query,
                         !.currentLocation = call.currentLocation, !.options = call.options,
                         !.path = path, !.served = served, !.env = env,
                         !.threw = result.threw,
                         !.value = IF result.threw THEN None ELSE Some(result.value),
                         !.at = now]

\* searchLocations up to its await: the short query, the cache check, the dispatch
searchLocationsEnter(c, query, currentLocation, options) ==
  LET call == [pc |-> "await", query |-> query, currentLocation |-> currentLocation,
               options |-> options]
      key == searchCacheKey(query, options)
  IN /\ searchReturned = NoSearchReturn
     /\ searchCalls[c].pc = "idle"
     /\ IF Len(query) < 2
          THEN /\ searchReturned' = SearchReturn(c, call, "short", {}, None, Returned(<<>>))
               /\ UNCHANGED <<searchCache, searchCalls>>
          ELSE IF SearchCacheHit(key, now)
            THEN LET ranked == rankAndFilterResults(searchCache[key].data, query,
                                                    currentLocation, options.maxResults)
                 IN /\ searchReturned' = SearchReturn(c, call, "hit", {}, None,
                                                       Returned(ranked.value))
                    /\ searchCache' = [searchCache EXCEPT ![key].data = ranked.sorted]
                    /\ UNCHANGED searchCalls
            ELSE /\ searchCalls' = [searchCalls EXCEPT ![c] = call]
                 /\ UNCHANGED <<searchCache, searchReturned>>

CallSearchLocations(c, query, currentLocation, options) ==
  /\ searchLocationsEnter(c, query, currentLocation, options)
  /\ UNCHANGED <<now, keys, cache, calls, returned, uiVars>>

\* Promise.allSettled has settled: merge, deduplicate, rank, cache, return; an
\* exception on the way is caught by the catch block.  elapsed is the time that
\* passes between the two reads of the clock of the cache write
searchLocationsSettleAfter(c, env, elapsed) ==
  LET call == searchCalls[c]
      key == searchCacheKey(call.query, call.options)
      uniqueResults == removeDuplicates(FulfilledValues(call.query, call.options, env))
  IN /\ searchReturned = NoSearchReturn
     /\ call.pc = "await"
     /\ IF uniqueResults.threw
          THEN /\ searchReturned' = SearchReturn(c, call, "fallback", {}, Some(env),
                                                    SearchFallback(call.query))
               /\ UNCHANGED searchCache
          ELSE LET ranked == rankAndFilterResults(uniqueResults.value, call.query,
                                                  call.currentLocation, call.options.maxResults)
               IN /\ searchReturned' = SearchReturn(c, call, "miss",
                                                    Served(call.query, call.options, env),
                                                    Some(env), Returned(ranked.value))
                  /\ searchCache' = SearchCacheSet(key, ranked.value, now, now + elapsed)
     /\ searchCalls' = [searchCalls EXCEPT ![c] = SearchIdle]

\* ... with both reads in the same millisecond
searchLocationsSettle(c, env) == searchLocationsSettleAfter(c, env, 0)

SettleSearch(c, env) ==
  /\ searchLocationsSettle(c, env)
  /\ UNCHANGED <<now, keys, cache, calls, returned, uiVars>>

\* ... with elapsed milliseconds passing between the two reads
SettleSearchReading(c, env, elapsed) ==
  /\ (now % MsPerSearchTick) + elapsed <= MaxClockTurns
  /\ searchLocationsSettleAfter(c, env, elapsed)
  /\ now' = now + elapsed
  /\ UNCHANGED <<keys, cache, calls, returned, uiVars>>

\* SearchService.reverseGeocode called for a position fix
CallReverseGeocode(c, lat, lon, resp) ==
  /\ searchReturned = NoSearchReturn
  /\ searchCalls[c].pc = "idle"
  /\ LET r == reverseGeocode(lat, lon, HasKey("OpenWeather"), resp)
     IN searchReturned' =
          [NoSearchReturn EXCEPT !.caller = c, !.op = "reverseGeocode", !.lat = lat, !.lon = lon,
                                 !.outcome = IF ~HasKey("OpenWeather") THEN "no key"
                                             ELSE IF resp.kind = "reject" THEN "reject"
                                             ELSE IF resp.data.isNull THEN "null"
                                             ELSE IF resp.data.items = <<>> THEN "empty"
                                             ELSE "found",
                                 !.threw = r.threw,
                                 !.value = IF r.threw THEN None ELSE Some(r.value),
                                 !.at = now]
  /\ UNCHANGED <<now, keys, cache, calls, returned, searchCache, searchCalls, uiVars>>

DeliverSearch ==
  /\ searchReturned # NoSearchReturn
  /\ searchReturned' = NoSearchReturn
  /\ UNCHANGED <<now, keys, cache, calls, returned, searchCache, searchCalls, uiVars>>

SearchTick ==
  /\ searchReturned = NoSearchReturn
  /\ now < MaxSearchTicks * MsPerSearchTick
  /\ now' = now + MsPerSearchTick
  /\ UNCHANGED <<keys, cache, calls, returned, searchCache, searchCalls, searchReturned, uiVars>>

-----------------------------------------------------------------------------
(* The upstream of the search, and its callers *)

NewYorkUpstream == GeoItem(<<"N", "e", "w", " ", "Y", "o", "r", "k">>, <<"U", "S">>, <<"N", "e",
    "w", " ", "Y", "o", "r", "k">>, 407143, -740060)
TokyoUpstream == GeoItem(<<"T", "o", "k", "y", "o">>, <<"J", "P">>, UndefinedStr, 356828, 1397594)
TorontoUpstream == GeoItem(<<"T", "o", "r", "o", "n", "t", "o">>, <<"C", "A">>, <<"O", "n", "t",
    "a", "r", "i", "o">>, 436532, -793832)
NamelessUpstream == GeoItem(UndefinedStr, <<"U", "S">>, UndefinedStr, 407143, -740060)

\* what GET /geo/1.0/reverse settles with: an HTTP error or the 5 s timeout, a body
\* that is no array, no place, a place, a place without a name
ReverseResponses ==
  {Reject, Resolve(NullData), Resolve(ListData(<<>>)),
   Resolve(ListData(<<NewYorkUpstream>>)), Resolve(ListData(<<NamelessUpstream>>))}

\* ... as seen through searchByCoordinates
CoordinateSearchResponses ==
  {Reject, Resolve(ListData(<<NewYorkUpstream>>)), Resolve(ListData(<<NamelessUpstream>>))}

\* what GET /geo/1.0/direct settles with: places only for a query that names some
GeocoderResponses(query) ==
  IF ParsedCoordinates(query) # None
    THEN {Reject, Resolve(ListData(<<>>))}
    ELSE {Reject, Resolve(ListData(<<TokyoUpstream, TorontoUpstream>>)),
          Resolve(ListData(<<NamelessUpstream>>))}

TokyoStation == StationItem(<<"T", "o", "k", "y", "o", ",", " ", "J", "a", "p", "a", "n">>, <<"J",
    "a", "p", "a", "n">>, <<356762, 1396503>>, 5573)
EquatorStation == StationItem(<<"P", "o", "n", "t", "i", "a", "n", "a", "k">>, UndefinedStr, <<0,
    1000000>>, 8294)

\* what GET /search/ settles with
StationResponses(query) ==
  IF ParsedCoordinates(query) # None
    THEN {Resolve([status |-> "ok", data |-> Some(<<>>)])}
    ELSE {Resolve([status |-> "error", data |-> None]),
          Resolve([status |-> "ok", data |-> Some(<<TokyoStation, EquatorStation>>)])}

\* the outcomes of a strategy: those of its request and the timeout when it makes
\* one, nothing to choose when it makes none
NetworkOutcomes(requested, responses) ==
  IF requested THEN responses \cup {TimedOut} ELSE {Reject}

SearchOutcomes(query, options) ==
  {Outcomes(reverse, cities, stations) :
     reverse \in NetworkOutcomes(options.includeCoordinates /\ ParsedCoordinates(query) # None
                                   /\ HasKey("OpenWeather"), CoordinateSearchResponses),
     cities \in NetworkOutcomes(HasKey("OpenWeather"), GeocoderResponses(query)),
     stations \in NetworkOutcomes(options.includeStations /\ HasKey("WAQI"),
                                  StationResponses(query))}

Queries ==
  {<<"t">>, <<"t", "o">>, <<"4", "0", ".", "7", "1", "2", "8", ",", "-", "7", "4", ".", "0", "0",
      "6", "0">>}

London == Place(<<"L", "o", "n", "d", "o", "n">>, <<"U", "K">>, UndefinedStr, 515074, -1278)

\* LocationSearch.debouncedSearch (LocationSearch.tsx lines 90-98) and
\* AQIService.searchLocations (aqiService.ts line 229)
SearchCallSites ==
  {[caller |-> "LocationSearch", currentLocation |-> Some(London),
    options |-> Options(TRUE, TRUE, 10)],
   [caller |-> "AQIService", currentLocation |-> None, options |-> Options(TRUE, TRUE, 8)]}

\* positions handed to reverseGeocode
Positions ==
  {[lat |-> 407128, lon |-> -740060], [lat |-> 900000, lon |-> 1800000],
   [lat |-> -900000, lon |-> -1800000], [lat |-> 0, lon |-> 0], [lat |-> -235505, lon |-> 5],
   [lat |-> 515074, lon |-> -1278], [lat |-> -4, lon |-> 1396503]}

\* no key is set, or those of the two services the search uses
SearchKeys ==
  {[s \in SourceNames |-> KeyUnset],
   [s \in SourceNames |-> IF s # "IQAir" THEN KeyIssued ELSE KeyUnset]}

InitSearch ==
  /\ now = 0
  /\ keys \in SearchKeys
  /\ cache = <<>>
  /\ calls = [c \in Callers |-> Idle]
  /\ returned = NoReturn
  /\ SearchInit
  /\ UiInit

\* one search at a time
NextSearch ==
  \/ SearchTick
  \/ DeliverSearch
  \/ \E site \in SearchCallSites, query \in Queries :
        /\ \A c \in SearchCallers : searchCalls[c].pc = "idle"
        /\ CallSearchLocations(site.caller, query, site.currentLocation, site.options)
  \/ \E c \in SearchCallers :
        \E env \in SearchOutcomes(searchCalls[c].query, searchCalls[c].options) :
          SettleSearch(c, env)

SpecSearch == InitSearch /\ [][NextSearch]_vars

\* the search of the query box, whose cache writes may fall on the turn of a millisecond
NextStore ==
  \/ SearchTick
  \/ DeliverSearch
  \/ \E query \in Queries :
        /\ \A c \in SearchCallers : searchCalls[c].pc = "idle"
        /\ CallSearchLocations("LocationSearch", query, Some(London), Options(TRUE, TRUE, 10))
  \/ \E env \in SearchOutcomes(searchCalls["LocationSearch"].query,
                               searchCalls["LocationSearch"].options) :
        \E elapsed \in 0..1 : SettleSearchReading("LocationSearch", env, elapsed)

SpecStore == InitSearch /\ [][NextStore]_vars

\* reverse geocoding of position fixes
NextReverse ==
  \/ SearchTick
  \/ DeliverSearch
  \/ \E c \in SearchCallers, p \in Positions, resp \in ReverseResponses :
        CallReverseGeocode(c, p.lat, p.lon, resp)

SpecReverse == InitSearch /\ [][NextReverse]_vars

-----------------------------------------------------------------------------
(* The search called with the names of the gazetteer, from all its call sites *)

\* further records of GET /geo/1.0/direct: a second name at the coordinates of a
\* place, the same place a few metres away, a record without coordinates
TokyoToUpstream == GeoItem(<<"T", "o", "k", "y", "o", "-", "t", "o">>, <<"J", "P">>, UndefinedStr,
    356828, 1397594)
TokyoNearbyUpstream == GeoItem(<<"T", "o", "k", "y", "o">>, <<"J", "P">>, UndefinedStr, 356824,
    1397594)
CoordlessUpstream == GeoItem(<<"T", "o", "k", "y", "o">>, <<"J", "P">>, UndefinedStr, UndefinedNum,
    UndefinedNum)

RankingGeocoderResponses ==
  {Reject, Resolve(ListData(<<TokyoToUpstream, TokyoUpstream, TokyoNearbyUpstream>>)),
   Resolve(ListData(<<CoordlessUpstream>>))}

RankingStationResponses ==
  {Resolve([status |-> "error", data |-> None]),
   Resolve([status |-> "ok", data |-> Some(<<TokyoStation, EquatorStation>>)])}

\* the 8 s timer won the race; the strategy's own promise settles later with resp
CompletesLate(resp) == [kind |-> "timeout", late |-> resp]

LateOutcomes(requested, responses) ==
  IF requested THEN responses \cup {CompletesLate(r) : r \in responses} ELSE {Reject}

RankingOutcomes(query, options) ==
  {Outcomes(Reject, cities, stations) :
     cities \in LateOutcomes(HasKey("OpenWeather"), RankingGeocoderResponses),
     stations \in LateOutcomes(options.includeStations /\ HasKey("WAQI"),
                               RankingStationResponses)}

\* the city names of the gazetteer, and a prefix of two of them
RankingQueries == {predefinedLocations[i].city : i \in 1..Len(predefinedLocations)} \cup {<<"t",
    "o">>}

\* LocationSearch.debouncedSearch (LocationSearch.tsx lines 90-98) and the three
\* wrappers of AQIService (aqiService.ts lines 229, 249, 260), which the earlier
\* LocationSearch (src/unnamed/part_006 lines 81-85) calls with the same query
RankingCallSites ==
  {[caller |-> "LocationSearch", currentLocation |-> Some(London),
    options |-> Options(TRUE, TRUE, 10)],
   [caller |-> "AQIService", currentLocation |-> None, options |-> Options(TRUE, TRUE, 8)],
   [caller |-> "AQIService", currentLocation |-> None, options |-> Options(TRUE, FALSE, 6)],
   [caller |-> "AQIService", currentLocation |-> None, options |-> Options(FALSE, TRUE, 1)]}

\* one search at a time, one cache key in a session
NextRanking ==
  \/ SearchTick
  \/ DeliverSearch
  \/ \E site \in RankingCallSites, query \in RankingQueries :
        /\ \A c \in SearchSlots : searchCalls[c].pc = "idle"
        /\ DOMAIN searchCache \subseteq {searchCacheKey(query, site.options)}
        /\ CallSearchLocations(site.caller, query, site.currentLocation, site.options)
  \/ \E c \in SearchCallers :
        \E env \in RankingOutcomes(searchCalls[c].query, searchCalls[c].options) :
          SettleSearch(c, env)

SpecRanking == InitSearch /\ [][NextRanking]_vars

-----------------------------------------------------------------------------
(* The search called with lat,lon pairs, in range and out of range *)

\* queries typed as coordinates: in range, on the bounds, out of range, one number
CoordinateQueries ==
  {<<"4", "0", ".", "7", "1", "2", "8", ",", "-", "7", "4", ".", "0", "0", "6", "0">>,
   <<"9", "0", ",", " ", "1", "8", "0">>, <<"-", "9", "0", ".", "0", ",", "-", "1", "8", "0">>,
   <<"9", "1", ",", "0">>, <<"0", ",", "1", "8", "1">>, <<"-", "9", "0", ".", "5", ",", "0">>,
   <<"4", "0", ".", "7", "1", "2", "8">>, <<"t", "o">>}

\* one search at a time, one cache key in a session
NextCoordinates ==
  \/ SearchTick
  \/ DeliverSearch
  \/ \E site \in RankingCallSites, query \in CoordinateQueries :
        /\ \A c \in SearchSlots : searchCalls[c].pc = "idle"
        /\ DOMAIN searchCache \subseteq {searchCacheKey(query, site.options)}
        /\ CallSearchLocations(site.caller, query, site.currentLocation, site.options)
  \/ \E c \in SearchCallers :
        \E env \in SearchOutcomes(searchCalls[c].query, searchCalls[c].options) :
          SettleSearch(c, env)

SpecCoordinates == InitSearch /\ [][NextCoordinates]_vars

-----------------------------------------------------------------------------

(* The relevance scores, applied to names and queries *)

RelevanceNames ==
  {<<"T", "o", "k", "y", "o">>, <<"T", "o", "r", "o", "n", "t", "o">>, <<"N", "e", "w", " ", "Y",
      "o", "r", "k">>, <<"S", "ã", "o", " ", "P", "a", "u", "l", "o">>, <<"H", "o", "n", "g", " ",
      "K", "o", "n", "g">>, <<"T", "o", "k", "y", "o", "-", "t", "o">>, <<"D", "e", "l", "h", "i">>,
   <<"P", "a", "r", "i", "s">>, <<"K", "y", "o", "t", "o">>, <<"P", "o", "r", "t", " ", "T", "o",
       "k", "y", "o">>, <<"K", "y", "o", "t", "o", "k", "y", "o">>, <<>>}

RelevanceQueries ==
  {<<"t", "o", "k", "y", "o">>, <<"T", "O", "K", "Y", "O">>, <<"t", "o">>, <<"T", "o", "k", "i",
      "o">>, <<"y", "o", "r", "k">>, <<"o", "r", "k">>, <<"p", "a", "u", "l", "o">>, <<"x", "y",
      "z", "z", "y">>, <<"P", "a", "r", "i", "s">>,
   <<"k", "o", "n", "g">>}

RelevanceStations ==
  {StationItem(<<"T", "o", "k", "y", "o", ",", " ", "J", "a", "p", "a", "n">>, <<"J", "a", "p",
      "a", "n">>, <<356762, 1396503>>, 5573),
   StationItem(<<"U", "e", "n", "o", ",", " ", "T", "o", "k", "y", "o">>,
       <<"J", "a", "p", "a", "n">>, <<356938, 1397034>>, 5574),
   StationItem(<<" ", "P", "a", "r", "i", "s", " ", ",", " ", "F", "R">>, UndefinedStr, <<488566,
       23522>>, 3082),
   StationItem(<<"T", "o", "k", "y", "o">>, <<"J", "a", "p", "a", "n">>, <<356762, 1396503>>, 5575),
   StationItem(UndefinedStr, UndefinedStr, <<0, 1000000>>, 8294)}

ApplyCityRelevance(cityName, query) ==
  /\ searchReturned = NoSearchReturn
  /\ searchReturned' =
       [NoSearchReturn EXCEPT !.op = "calculateCityRelevance", !.query = query,
                              !.value = Some([name |-> cityName,
                                              relevanceScore |->
                                                calculateCityRelevance(cityName, query)]),
                              !.at = now]
  /\ UNCHANGED <<now, keys, cache, calls, returned, searchCache, searchCalls, uiVars>>

\* the map step of searchMonitoringStations on one station of the response
ApplyStationResult(station, query) ==
  /\ searchReturned = NoSearchReturn
  /\ searchReturned' =
       [NoSearchReturn EXCEPT !.op = "StationResult", !.query = query,
                              !.value = Some([station |-> station,
                                              result |-> StationResult(station, query)]),
                              !.at = now]
  /\ UNCHANGED <<now, keys, cache, calls, returned, searchCache, searchCalls, uiVars>>

NextRelevance ==
  \/ DeliverSearch
  \/ \E cityName \in RelevanceNames, query \in RelevanceQueries :
        ApplyCityRelevance(cityName, query)
  \/ \E station \in RelevanceStations, query \in RelevanceQueries :
        ApplyStationResult(station, query)

SpecRelevance == InitSearch /\ [][NextRelevance]_vars

-----------------------------------------------------------------------------

(* LocationSearch (src/src/components/LocationSearch.tsx): the query box,    *)
(* its 300 ms debounce and the searches it has in flight                     *)

\* an entry of the results state
Shown(location, type, isFavorite, isRecent) ==
  [location |-> location, type |-> type, isFavorite |-> isFavorite, isRecent |-> isRecent]

SameCityCountry(a, b) == a.city = b.city /\ a.country = b.country

someOf(list, location) == \E i \in 1..Len(list) : SameCityCountry(list[i], location)

RECURSIVE ExcludeFavorites(_, _)
ExcludeFavorites(recentSearches, favorites) ==
  IF recentSearches = <<>> THEN <<>>
  ELSE (IF someOf(favorites, recentSearches[1]) THEN <<>> ELSE <<recentSearches[1]>>)
         \o ExcludeFavorites(Tail(recentSearches), favorites)

\* mutant: the recent searches are not filtered against the favorites
combinedResultsUnfiltered(favorites, recentSearches) ==
  [i \in 1..Len(favorites) |-> Shown(favorites[i], "favorite", TRUE, FALSE)]
  \o [i \in 1..Len(recentSearches) |-> Shown(recentSearches[i], "recent", FALSE, TRUE)]

\* lines 63-70: the favorites, then the recent searches that are no favorite
combinedResults(favorites, recentSearches) ==
  LET recent == ExcludeFavorites(recentSearches, favorites)
  IN [i \in 1..Len(favorites) |-> Shown(favorites[i], "favorite", TRUE, FALSE)]
     \o [i \in 1..Len(recent) |-> Shown(recent[i], "recent", FALSE, TRUE)]

\* lines 101-109: the flags added to the results of the service
enhancedResults(searchResults, favorites, recentSearches) ==
  [i \in 1..Len(searchResults) |->
     Shown(searchResults[i], searchResults[i].type, someOf(favorites, searchResults[i]),
           someOf(recentSearches, searchResults[i]))]

LondonCanada == Place(<<"L", "o", "n", "d", "o", "n">>, <<"C", "a", "n", "a", "d", "a">>, <<"O",
    "n", "t", "a", "r", "i", "o">>, 429849, -812453)

\* what localStorage holds under favoriteLocations and recentSearches at mount
StoredLists ==
  {[favorites |-> <<>>, recentSearches |-> <<>>],
   [favorites |-> <<predefinedLocations[3], predefinedLocations[2]>>,
    recentSearches |-> <<predefinedLocations[2], LondonCanada, predefinedLocations[7],
                         predefinedLocations[3]>>],
   [favorites |-> SubSeq(predefinedLocations, 1, 5),
    recentSearches |-> SubSeq(predefinedLocations, 4, 11)],
   [favorites |-> SubSeq(predefinedLocations, 1, 9),
    recentSearches |-> SubSeq(predefinedLocations, 10, 11)]}

\* what the user types into the box
ComponentQueries == {<<>>, <<"t">>, <<"t", "o">>, <<"t", "o", "k">>}

ComponentOptions == Options(TRUE, TRUE, 10)

\* the component is mounted: the stored lists are loaded and the search effect
\* has armed its timer for the empty query
InitComponent ==
  /\ now = 0
  /\ keys \in SearchKeys
  /\ cache = <<>>
  /\ calls = [c \in Callers |-> Idle]
  /\ returned = NoReturn
  /\ SearchInit
  /\ aqiHook = NoLocation
  /\ \E stored \in StoredLists :
       locationSearch = [Unmounted EXCEPT !.debounce = TRUE, !.favorites = stored.favorites,
                                          !.recentSearches = stored.recentSearches]

\* onChange: setQuery; the search effect clears its timer and sets a new one
TypeQuery(q) ==
  /\ q # locationSearch.query
  /\ locationSearch' = [locationSearch EXCEPT !.query = q, !.debounce = TRUE]
  /\ UNCHANGED <<now, keys, cache, calls, returned, searchVars, aqiHook>>

\* the 300 ms timer fires: debouncedSearch(query) up to its return or its await
DebouncedSearch ==
  /\ locationSearch.debounce
  /\ IF Len(locationSearch.query) < 2
       THEN LET combined == combinedResults(locationSearch.favorites,
                                            locationSearch.recentSearches)
            IN /\ locationSearch' =
                    [locationSearch EXCEPT !.debounce = FALSE,
                                           !.results = slice(combined, 8),
                                           !.showResults = Len(combined) > 0,
                                           !.shownFor = Some(locationSearch.query)]
               /\ UNCHANGED searchVars
       ELSE /\ \E c \in ComponentSlots :
                 /\ c = "LocationSearch" \/ searchCalls["LocationSearch"].pc # "idle"
                 /\ searchLocationsEnter(c, locationSearch.query, Some(London), ComponentOptions)
            /\ locationSearch' = [locationSearch EXCEPT !.debounce = FALSE,
                                                        !.started = Some(locationSearch.query)]
  /\ UNCHANGED <<now, keys, cache, calls, returned, aqiHook>>

\* lines 101-118: debouncedSearch after its await
ShowSearchResults ==
  /\ searchReturned # NoSearchReturn
  /\ searchReturned.caller \in ComponentSlots
  /\ locationSearch' =
       [locationSearch EXCEPT
          !.results = enhancedResults(searchReturned.value[1], locationSearch.favorites,
                                      locationSearch.recentSearches),
          !.showResults = TRUE,
          !.shownFor = Some(searchReturned.query)]
  /\ searchReturned' = NoSearchReturn
  /\ UNCHANGED <<now, keys, cache, calls, returned, searchCache, searchCalls, aqiHook>>

\* what the requests of a search of the component settle with
ComponentOutcomes(query) ==
  {Outcomes(Reject, cities, Reject) :
     cities \in IF HasKey("OpenWeather")
                  THEN {Reject, Resolve(ListData(<<TokyoUpstream, TorontoUpstream>>))}
                  ELSE {Reject}}

SettleComponentSearch ==
  \E c \in ComponentSlots :
    \E env \in ComponentOutcomes(searchCalls[c].query) :
      /\ searchLocationsSettle(c, env)
      /\ UNCHANGED <<now, keys, cache, calls, returned, uiVars>>

\* (within the lifetime of a cache entry)
NextComponent ==
  \/ \E q \in ComponentQueries : TypeQuery(q)
  \/ DebouncedSearch
  \/ SettleComponentSearch
  \/ ShowSearchResults

SpecComponent == InitComponent /\ [][NextComponent]_vars

-----------------------------------------------------------------------------

(* useAQI (src/src/hooks/useAQI.ts) with the refresh button of App:          *)
(* the first fetch for a location, the 5-minute interval, the manual refresh *)

REFRESH_INTERVAL == 5 * 60 * 1000
RequestMs == 2 * 1000        \* the time a request to a source takes

\* the effect of useAQI runs for a location: fetchAQI() up to its await, then setInterval
RunEffect(loc, fetch, refreshes) ==
  /\ returned = NoReturn
  /\ calls["useAQI"].pc = "idle"
  /\ EnterCurrent("useAQI", [Idle EXCEPT !.op = "getCurrentAQI", !.location = loc], "mid")
  /\ aqiHook' = [aqiHook EXCEPT !.location = Some(loc), !.due = Some(now + REFRESH_INTERVAL),
                                !.fetch = fetch, !.refreshes = refreshes, !.waited = FALSE]
  /\ UNCHANGED <<now, keys, cache, searchVars, locationSearch>>

\* a location is selected for the first time
SelectLocation(loc) ==
  /\ aqiHook.location = None
  /\ RunEffect(loc, "mount", 0)

\* App.handleRefresh: setSelectedLocation({...selectedLocation}); the effect of
\* useAQI is cleaned up (clearInterval) and runs again
ManualRefresh ==
  /\ aqiHook.location # None
  /\ aqiHook.refreshes < MaxRefreshes
  /\ RunEffect(aqiHook.location[1], "manual", aqiHook.refreshes + 1)

\* the interval timer fires: fetchAQI() up to its await
IntervalFires ==
  /\ aqiHook.due = Some(now)
  /\ aqiHook.refreshes < MaxRefreshes
  /\ returned = NoReturn
  /\ calls["useAQI"].pc = "idle"
  /\ EnterCurrent("useAQI", [Idle EXCEPT !.op = "getCurrentAQI",
                                         !.location = aqiHook.location[1]], "mid")
  /\ aqiHook' = [aqiHook EXCEPT !.due = Some(now + REFRESH_INTERVAL), !.fetch = "interval",
                                !.refreshes = @ + 1, !.waited = FALSE]
  /\ UNCHANGED <<now, keys, cache, searchVars, locationSearch>>

\* the request in flight takes its time
RequestTakesTime ==
  /\ calls["useAQI"].pc = "await"
  /\ ~aqiHook.waited
  /\ now + RequestMs < aqiHook.due[1]
  /\ now' = now + RequestMs
  /\ aqiHook' = [aqiHook EXCEPT !.waited = TRUE]
  /\ UNCHANGED <<keys, cache, calls, returned, searchVars, locationSearch>>

\* time passes while the hook is idle, up to the moment the interval is due
RefreshTick ==
  /\ aqiHook.due # None
  /\ calls["useAQI"].pc = "idle"
  /\ returned = NoReturn
  /\ now < aqiHook.due[1]
  /\ now' = Min(aqiHook.due[1], now + MsPerTick)
  /\ UNCHANGED <<keys, cache, calls, returned, searchVars, uiVars>>

\* fetchAQI after its await: setData(aqiData)
SetData ==
  /\ returned # NoReturn
  /\ returned.caller = "useAQI"
  /\ aqiHook' = [aqiHook EXCEPT !.data = returned.value]
  /\ returned' = NoReturn
  /\ UNCHANGED <<now, keys, cache, calls, searchVars, locationSearch>>

NextRefresh ==
  \/ \E loc \in ForecastLocations : SelectLocation(loc)
  \/ ManualRefresh
  \/ IntervalFires
  \/ RequestTakesTime
  \/ RefreshTick
  \/ SettleSomeSource({"useAQI"})
  \/ SetData

SpecRefresh == Init /\ [][NextRefresh]_vars

-----------------------------------------------------------------------------

(* getCurrentAQI under every setting of the three API keys, the placeholder *)
(* of the setup instructions included                                       *)

InitKeys ==
  /\ now = 0
  /\ keys \in [SourceNames -> KeyValues]
  /\ cache = <<>>
  /\ calls = [c \in Callers |-> Idle]
  /\ returned = NoReturn
  /\ SearchInit
  /\ UiInit

\* what a request sent with the key of source i settles with: a provider answers a
\* key it never issued with 401 or 403, which axios rejects
KeyedResponses(i, t) ==
  IF keys[Sources[i]] = KeyIssued THEN Responses(i, t) ELSE {Reject}

SettleKeyedSource(c) ==
  /\ calls[c].pc = "await"
  /\ \E resp \in KeyedResponses(calls[c].idx, now) :
       \/ SourceSucceeds(c, resp, "mid")
       \/ SourceFails(c, resp)
       \/ \E sm \in Schedules : AllSourcesFail(c, resp, sm, "mid")

NextKeys ==
  \/ Deliver
  \/ \E loc \in ForecastLocations : CallGetCurrentAQI("useAQI", loc)
  \/ SettleKeyedSource("useAQI")

SpecKeys == InitKeys /\ [][NextKeys]_vars

-----------------------------------------------------------------------------

(* getForecast and getCurrentAQI when a provider may never answer.          *)
(* axios.get with a timeout option settles: with the response, or with a    *)
(* rejection once the timeout has passed.  axios.get without one (axios's   *)
(* default timeout is 0, no limit) settles only if the provider answers.    *)
(* The three requests of getCurrentAQI carry timeout: 10000 (lines 66, 109, *)
(* 144), so a call does not await them forever; the two requests of         *)
(* getOpenWeatherForecast carry none (lines 194-210).  The caller's         *)
(* continuation runs once its await has resolved.                           *)

\* an awaited request of getCurrentAQI settles; the random draws are the middle ones
SettleTimedSource(c) ==
  /\ calls[c].pc = "await"
  /\ \E resp \in Responses(calls[c].idx, now) :
       \/ SourceSucceeds(c, resp, "mid")
       \/ SourceFails(c, resp)
       \/ AllSourcesFail(c, resp, "mid", "mid")

\* Promise.all of the two requests of getOpenWeatherForecast settles
SettleUntimedForecast(c) ==
  \E current \in OpenWeatherResponses(now), historical \in HistoryResponses(now) :
    SettleForecast(c, current, historical, "mid")

NextForecastLive ==
  \/ Deliver
  \/ \E loc \in ForecastLocations : CallGetCurrentAQI("useForecast", loc)
  \/ \E loc \in ForecastLocations : CallGetForecast("useForecast", loc, "mid")
  \/ SettleTimedSource("useForecast")
  \/ SettleUntimedForecast("useForecast")

\* at most three requests with a timeout follow one another in a call
TimedRequestsSettle == []<>(calls["useForecast"].pc # "await")

SpecForecastLive ==
  /\ Init
  /\ [][NextForecastLive]_vars
  /\ TimedRequestsSettle
  /\ WF_vars(Deliver)

-----------------------------------------------------------------------------

(* getCurrentAQI for one place at the coordinates of two position fixes:    *)
(* reverseGeocode hands on the latitude and longitude it was given (lines   *)
(* 383-421 of src/unnamed/part_001), and two fixes of one place differ in   *)
(* their last digits                                                        *)

SydneyFix == Loc("Sydney", "Australia", -338689, 1512093)
FixLocations == {Sydney, SydneyFix}

NextFixes ==
  \/ Tick
  \/ Deliver
  \/ \E loc \in FixLocations : CallGetCurrentAQI("useAQI", loc)
  \/ SettleSomeSource({"useAQI"})

SpecFixes == Init /\ [][NextFixes]_vars

-----------------------------------------------------------------------------

(* The search when the geocoder and the station search answer with the same place *)

\* the geocoder's record of the place the station TokyoStation stands at
TokyoCentreUpstream == GeoItem(<<"T", "o", "k", "y", "o">>, <<"J", "P">>, UndefinedStr, 356762,
    1396503)

SamePlaceOutcomes(query, options) ==
  {Outcomes(Reject, cities, stations) :
     cities \in NetworkOutcomes(HasKey("OpenWeather"),
                                {Reject, Resolve(ListData(<<TokyoCentreUpstream, TokyoUpstream>>))}),
     stations \in NetworkOutcomes(options.includeStations /\ HasKey("WAQI"),
                                  RankingStationResponses)}

\* a prefix of the name and the name
SamePlaceQueries == {<<"t", "o">>, <<"t", "o", "k", "y", "o">>}

\* one search at a time, one cache key in a session
NextSamePlace ==
  \/ SearchTick
  \/ DeliverSearch
  \/ \E site \in RankingCallSites, query \in SamePlaceQueries :
        /\ \A c \in SearchSlots : searchCalls[c].pc = "idle"
        /\ DOMAIN searchCache \subseteq {searchCacheKey(query, site.options)}
        /\ CallSearchLocations(site.caller, query, site.currentLocation, site.options)
  \/ \E c \in SearchCallers :
        \E env \in SamePlaceOutcomes(searchCalls[c].query, searchCalls[c].options) :
          SettleSearch(c, env)

SpecSamePlace == InitSearch /\ [][NextSamePlace]_vars

-----------------------------------------------------------------------------

(* The search repeated with the same query through call sites that pass     *)
(* different maxResults: the query box before a location is selected        *)
(* (LocationSearch.tsx lines 90-98, currentLocation || undefined) and       *)
(* AQIService.searchLocations (aqiService.ts line 229).  The providers      *)
(* answer every dispatch alike.                                             *)

\* eight records of GET /geo/1.0/direct (limit: 8) for a query that many places match
ManyPlacesUpstream ==
  <<TokyoToUpstream, TokyoUpstream, TokyoNearbyUpstream, TorontoUpstream,
    GeoItem(<<"T", "o", "l", "e", "d", "o">>, <<"E", "S">>, UndefinedStr, 398628, -40273),
    GeoItem(<<"T", "o", "r", "i", "n", "o">>, <<"I", "T">>, <<"P", "i", "e", "d", "m", "o", "n",
        "t">>, 450703, 76869),
    GeoItem(<<"T", "o", "m", "s", "k">>, <<"R", "U">>, UndefinedStr, 564977, 849744),
    GeoItem(<<"T", "o", "u", "r", "s">>, <<"F", "R">>, UndefinedStr, 473941, 6848)>>

ManyPlacesOutcome ==
  Outcomes(Reject, Resolve(ListData(ManyPlacesUpstream)),
           Resolve([status |-> "ok", data |-> Some(<<TokyoStation, EquatorStation>>)]))

RepeatCallSites ==
  {[caller |-> "LocationSearch", currentLocation |-> None, options |-> Options(TRUE, TRUE, 10)],
   [caller |-> "AQIService", currentLocation |-> None, options |-> Options(TRUE, TRUE, 8)]}

\* one search at a time
NextRepeat ==
  \/ SearchTick
  \/ DeliverSearch
  \/ \E site \in RepeatCallSites, query \in SamePlaceQueries :
        /\ \A c \in SearchSlots : searchCalls[c].pc = "idle"
        /\ CallSearchLocations(site.caller, query, site.currentLocation, site.options)
  \/ \E c \in SearchCallers : SettleSearch(c, ManyPlacesOutcome)

SpecRepeat == InitSearch /\ [][NextRepeat]_vars

-----------------------------------------------------------------------------

(* useAQI (src/src/hooks/useAQI.ts) while the selected location changes:     *)
(* every run of the effect starts its own fetchAQI(), and the fetches of     *)
(* earlier runs stay in flight (the cleanup only clears the interval)        *)

\* the activations of fetchAQI that can be in flight together
HookFetches == {"useAQI:1", "useAQI:2"}

\* useState(null), useState(false), useState(null); dataFor is the location the
\* fetch that called setData was started for
HookUnset == [location |-> None, data |-> None, dataFor |-> None, loading |-> FALSE,
              error |-> FALSE]

InitSwitch ==
  /\ now = 0
  /\ keys \in [SourceNames -> {KeyUnset, KeyIssued}]
  /\ cache = <<>>
  /\ calls = [c \in HookFetches |-> Idle]
  /\ returned = NoReturn
  /\ SearchInit
  /\ locationSearch = Unmounted
  /\ aqiHook = HookUnset

\* the location prop changes: the effect runs fetchAQI() up to its await
\* (setLoading(true); setError(null); AQIService.getCurrentAQI(location))
ChangeLocation(c, loc) ==
  /\ aqiHook.location # Some(loc)
  /\ returned = NoReturn
  /\ calls[c].pc = "idle"
  /\ EnterCurrent(c, [Idle EXCEPT !.op = "getCurrentAQI", !.location = loc], "mid")
  /\ aqiHook' = [aqiHook EXCEPT !.location = Some(loc), !.loading = TRUE, !.error = FALSE]
  /\ UNCHANGED <<now, keys, cache, searchVars, locationSearch>>

\* fetchAQI after its await: setData(aqiData) or setError(...), then finally
\* setLoading(false)
FetchContinues ==
  /\ returned # NoReturn
  /\ returned.caller \in HookFetches
  /\ aqiHook' = IF returned.threw
                  THEN [aqiHook EXCEPT !.error = TRUE, !.loading = FALSE]
                  ELSE [aqiHook EXCEPT !.data = returned.value, !.dataFor = Some(returned.location),
                                       !.loading = FALSE]
  /\ returned' = NoReturn
  /\ UNCHANGED <<now, keys, cache, calls, searchVars, locationSearch>>

NextSwitch ==
  \/ \E c \in HookFetches, loc \in Locations : ChangeLocation(c, loc)
  \/ SettleSomeSource(HookFetches)
  \/ FetchContinues

SpecSwitch == InitSwitch /\ [][NextSwitch]_vars

-----------------------------------------------------------------------------

(* Properties of the aggregator *)

IsReturn == returned # NoReturn

\* the cache key of the invocation that is returning
ReturnKey == cacheKey(returned.location)

\* a source attempt log that follows the fixed order WAQI, OpenWeather, IQAir, each
\* source at most once, every attempt but the last one settled with a failure
InPriorityOrder(attempts) ==
  /\ Len(attempts) <= 3
  /\ \A i \in 1..Len(attempts) :
        /\ attempts[i].source = <<"WAQI", "OpenWeather", "IQAir">>[i]
        /\ i < Len(attempts) => attempts[i].status = "failed"

IsReading(v) ==
  /\ DOMAIN v = {"aqi", "pm25", "pm10", "o3", "no2", "so2", "co", "timestamp", "location"}
  /\ \A f \in {"aqi", "pm25", "pm10", "o3", "no2", "so2", "co"} : v[f] \in Nat
  /\ v.timestamp \in Nat
  /\ v.location.city # ""

IsForecastList(v) ==
  /\ Len(v) > 0
  /\ \A i \in 1..Len(v) :
        /\ DOMAIN v[i] = {"timestamp", "aqi", "pm25", "pm10"}
        /\ v[i].aqi \in Int /\ v[i].timestamp \in Nat

\* C2: getCurrentAQI and getForecast never throw to the caller; whatever the sources
\* answer (no key, HTTP error, non-ok status, malformed payload, timeout) each returns
\* a populated value, a reading respectively a forecast list, synthetic when no
\* source succeeds.
C2_NeverThrows ==
  IsReturn =>
    /\ ~returned.threw
    /\ returned.value # None
    /\ returned.op = "getCurrentAQI" => IsReading(returned.value[1])
    /\ returned.op = "getForecast" => IsForecastList(returned.value[1])

\* getForecast returns a forecast although its three sources and the forecast
\* endpoint all failed over the network
C2_Witness ==
  /\ IsReturn
  /\ returned.op = "getForecast"
  /\ returned.servedBy = "mock"
  /\ \A i \in 1..3 : returned.attempts[i].network

\* a getCurrentAQI invocation by c begins in this step, for this location
Begins(c) ==
  /\ returned = NoReturn
  /\ calls[c].pc = "idle"
  /\ \/ calls'[c].pc = "await"
     \/ returned' # NoReturn /\ returned'.caller = c
BegunLocation(c) ==
  IF calls'[c].pc = "await" THEN calls'[c].location ELSE returned'.location

\* C4: a getCurrentAQI call that finds an entry stored less than 5 minutes ago under
\* its key returns the stored reading unchanged and calls no source; a call that
\* finds no entry, or one stored 5 minutes ago or more, consults the sources; a
\* reading obtained from a source is stored under the key with the time of storing.
C4_CacheWithinTTL ==
  [][ /\ \A c \in AqiCallers :
           Begins(c) =>
             LET key == cacheKey(BegunLocation(c))
             IN IF key \in DOMAIN cache /\ now - cache[key].timestamp < 5 * 60 * 1000
                  THEN /\ returned' # NoReturn
                       /\ returned'.value = Some(cache[key].data)
                       /\ returned'.attempts = <<>>
                       /\ calls'[c].pc = "idle"
                       /\ cache' = cache
                  ELSE /\ returned' = NoReturn
                       /\ calls'[c].pc = "await"
                       /\ calls'[c].attempts # <<>>
      /\ (returned = NoReturn /\ returned' # NoReturn /\ returned'.servedBy \in SourceNames) =>
           cache'[cacheKey(returned'.location)] =
             [data |-> returned'.value[1], timestamp |-> now]
    ]_vars

\* a reading stored earlier is served from the cache at a later time
C4_Witness ==
  /\ IsReturn
  /\ returned.servedBy = "cache"
  /\ cache[ReturnKey].timestamp < now

\* C5: when every source fails, the synthetic reading is in the cache under the
\* location's key when getCurrentAQI returns it.
C5_SyntheticCached ==
  (IsReturn /\ returned.servedBy = "mock") =>
    /\ ReturnKey \in DOMAIN cache
    /\ cache[ReturnKey].data = returned.value[1]

-----------------------------------------------------------------------------
(* Properties of the generators and conversions *)

\* C6: the synthetic reading getCurrentAQI falls back on has an integer aqi in
\* [10,300], for every city (named baseline or the default 80), hour of the day and
\* random draw, and its location is the requested location.
C6_MockAqiBounded ==
  (IsReturn /\ returned.op = "getMockAQI") =>
    /\ returned.value[1].aqi \in 10..300
    /\ returned.value[1].location = returned.location

\* the lower clamp acts: Sydney at midnight with the lowest draws
C6_Witness ==
  /\ IsReturn /\ returned.op = "getMockAQI"
  /\ returned.location.city = "Sydney"
  /\ getHours(returned.at) = 0
  /\ returned.value[1].aqi = 10

OwExpected(owAqi) ==
  IF owAqi \in {Some(k) : k \in 1..5} THEN 50 * owAqi[1] - 25 ELSE 50

\* C8: the OpenWeather conversion maps 1..5 to 25, 75, 125, 175, 225 and every other
\* input (0, negative, above 5, missing) to 50, and the inline copy in
\* getOpenWeatherAQI agrees with convertOpenWeatherAQI on every input.
C8_OpenWeatherConversion ==
  (IsReturn /\ returned.op = "convertOpenWeatherAQI") =>
    LET v == returned.value[1]
    IN /\ v.helper = OwExpected(v.input)
       /\ v.inline = OwExpected(v.input)
       /\ v.inline = v.helper

\* an input outside 1..5 is converted to the default
C8_Witness ==
  /\ IsReturn /\ returned.op = "convertOpenWeatherAQI"
  /\ returned.value[1].input = Some(6)
  /\ returned.value[1].inline = 50

IsForecastReturn == IsReturn /\ returned.op = "getForecast"

\* C9: on each of the three paths of getForecast the forecast has exactly 48 points,
\* the first at the generation time, each next one exactly one hour later.
C9_FortyEightHourly ==
  IsForecastReturn =>
    LET v == returned.value[1]
    IN /\ returned.path \in {"openweather", "current", "mock"}
       /\ Len(v) = 48
       /\ v[1].timestamp = returned.at
       /\ \A i \in 1..47 : v[i + 1].timestamp = v[i].timestamp + 3600000
       /\ \A i \in 1..47 : v[i + 1].timestamp > v[i].timestamp

\* a forecast derived from OpenWeather history, generated late on a Friday
C9_Witness ==
  /\ IsForecastReturn
  /\ returned.path = "openweather"
  /\ getDay(returned.at) = 5 /\ getHours(returned.at) = 0
  /\ Len(returned.value[1]) = 48

\* C10: every point of a forecast has aqi in [10,300].
C10_ForecastAqiBounded ==
  IsForecastReturn =>
    \A i \in 1..Len(returned.value[1]) : returned.value[1][i].aqi \in 10..300

-----------------------------------------------------------------------------
(* Properties of the search *)

IsReverseReturn == searchReturned.op = "reverseGeocode"

\* the request of reverseGeocode resolved no place
NoPlaceResolved == searchReturned.outcome \in {"no key", "reject", "null", "empty"}

\* city reads "Location <lat>, <lon>" with numbers that parse back to lat and lon
IsCoordinateString(city, lat, lon) ==
  /\ startsWith(city, <<"L", "o", "c", "a", "t", "i", "o", "n", " ">>)
  /\ LET match == coordPattern(SubSeq(city, Len(<<"L", "o", "c", "a", "t", "i", "o", "n",
      " ">>) + 1, Len(city)))
     IN /\ match # None
        /\ parseFloat(match[1].lat) = lat
        /\ parseFloat(match[1].lon) = lon

\* C7: for every position with lat in [-90,90] and lon in [-180,180] and every
\* outcome of the request (key missing, HTTP error or timeout, a body that is no
\* list, empty list, non-empty list) reverseGeocode returns without throwing a
\* Location whose coordinates are exactly (lat, lon); when no place is resolved
\* its city is a readable coordinate string and its country is "Unknown".
C7_ReverseGeocodeTotal ==
  IsReverseReturn =>
    /\ ~searchReturned.threw
    /\ searchReturned.value # None
    /\ searchReturned.value[1].coordinates =
         [lat |-> searchReturned.lat, lon |-> searchReturned.lon]
    /\ NoPlaceResolved =>
         /\ IsCoordinateString(searchReturned.value[1].city, searchReturned.lat,
                               searchReturned.lon)
         /\ searchReturned.value[1].country = <<"U", "n", "k", "n", "o", "w", "n">>

\* reverseGeocode has returned the placeholder for a request that failed at the
\* north-east corner of the range
C7_Witness ==
  /\ IsReverseReturn
  /\ searchReturned.outcome = "reject"
  /\ searchReturned.lat = 90 * Scale
  /\ searchReturned.lon = 180 * Scale
  /\ ~searchReturned.threw

IsSearchReturn == searchReturned.op = "searchLocations" /\ Len(searchReturned.query) >= 2

\* the dispatch of the returning search got data from no network adapter
NoAdapterServed ==
  searchReturned.path \in {"miss", "fallback"} /\ searchReturned.served = {}

\* r is an entry of the static gazetteer that matches the query
IsGazetteerMatch(r, query) ==
  \E i \in 1..Len(PredefinedMatches(query)) :
    [r EXCEPT !.distance = None] = PredefinedMatches(query)[i]

\* r is the coordinate result of a query that is a lat,lon pair in range
IsCoordinateResult(r, query, options) ==
  /\ options.includeCoordinates
  /\ ParsedCoordinates(query) # None
  /\ r.type = "coordinate"
  /\ r.coordinates = ParsedCoordinates(query)[1]

\* C3 as stated: searchLocations never throws for a query of length >= 2, and
\* when no network adapter is configured or all of them fail the list consists
\* of the static gazetteer matches only.
C3_GazetteerOnly ==
  IsSearchReturn =>
    /\ ~searchReturned.threw
    /\ NoAdapterServed =>
         \A i \in 1..Len(searchReturned.value[1]) :
           IsGazetteerMatch(searchReturned.value[1][i], searchReturned.query)

\* C3: searchLocations never throws to its caller: for every query of length
\* >= 2 and every combination of strategy outcomes it returns a list, and when
\* no network adapter is configured or all of them fail the list consists of
\* static gazetteer matches and, for a query that is a lat,lon pair in range
\* with includeCoordinates enabled, at most one coordinate result for that pair.
C3_SearchNeverThrows ==
  IsSearchReturn =>
    /\ ~searchReturned.threw
    /\ searchReturned.value # None
    /\ NoAdapterServed =>
         /\ \A i \in 1..Len(searchReturned.value[1]) :
              \/ IsGazetteerMatch(searchReturned.value[1][i], searchReturned.query)
              \/ IsCoordinateResult(searchReturned.value[1][i], searchReturned.query,
                                    searchReturned.options)
         /\ \A i, j \in 1..Len(searchReturned.value[1]) :
              (searchReturned.value[1][i].type = "coordinate"
                 /\ searchReturned.value[1][j].type = "coordinate") => i = j

\* a search for a lat,lon pair with no adapter to serve it has returned the
\* coordinate result
C3_Witness ==
  /\ IsSearchReturn
  /\ NoAdapterServed
  /\ ~searchReturned.threw
  /\ \E i \in 1..Len(searchReturned.value[1]) :
       IsCoordinateResult(searchReturned.value[1][i], searchReturned.query,
                          searchReturned.options)

\* query is, letter for letter, the city name of an entry of the gazetteer
IsExactName(query) ==
  \E i \in 1..Len(predefinedLocations) : predefinedLocations[i].city = query

\* ... and r is that entry as a result with relevance 100
IsExactEntry(r, query) ==
  \E i \in 1..Len(predefinedLocations) :
    /\ predefinedLocations[i].city = query
    /\ [r EXCEPT !.distance = None] =
         SearchResult(predefinedLocations[i].city, predefinedLocations[i].country,
                      predefinedLocations[i].state, predefinedLocations[i].coordinates.lat,
                      predefinedLocations[i].coordinates.lon, 100 * Scale, "city")

IsExactReturn == IsSearchReturn /\ IsExactName(searchReturned.query)

Abs(x) == IF x < 0 THEN -x ELSE x

\* the list of the return in progress
ReturnedList == searchReturned.value[1]

IsListReturn == IsSearchReturn /\ ~searchReturned.threw

MayPrecede(a, b) ==
  \/ a.relevanceScore > b.relevanceScore
  \/ /\ a.relevanceScore = b.relevanceScore
     /\ \/ typePriority(a.type) > typePriority(b.type)
        \/ /\ typePriority(a.type) = typePriority(b.type)
           /\ \/ a.distance # None /\ b.distance = None
              \/ a.distance # None /\ b.distance # None /\ a.distance[1] < b.distance[1]
              \/ /\ a.distance = b.distance
                 /\ localeCompare(a.city, b.city) <= 0

\* C15: every list returned by searchLocations is ordered by relevanceScore
\* descending, among equal scores by type priority descending, among equal
\* score and type by distance ascending with entries without distance last,
\* and among entries still tied, equal distances included, by city name
\* alphabetically.
C15_Ordered ==
  IsListReturn =>
    \A i \in 1..Len(ReturnedList) - 1 : MayPrecede(ReturnedList[i], ReturnedList[i + 1])

\* C16: every list returned by searchLocations for a query of length >= 2 has
\* at most maxResults entries, on the cache hit, the cache miss and the
\* gazetteer fallback taken after an unexpected error.
C16_AtMostMaxResults ==
  IsListReturn => Len(ReturnedList) <= searchReturned.options.maxResults

\* the strategies searchLocations dispatched, in dispatch order, each with the
\* outcome of its race against the 8 s timer and the value of its own promise
Dispatched(query, options, env) ==
  (IF options.includeCoordinates
     THEN <<[outcome |-> env.reverse,
             value |-> searchByCoordinates(query, HasKey("OpenWeather"), Settled(env.reverse))]>>
     ELSE <<>>)
  \o <<[outcome |-> env.cities,
        value |-> searchCities(query, HasKey("OpenWeather"), Settled(env.cities))]>>
  \o (IF options.includeStations /\ HasKey("WAQI")
        THEN <<[outcome |-> env.stations,
                value |-> searchMonitoringStations(query, HasKey("WAQI"), Settled(env.stations))]>>
        ELSE <<>>)
  \o <<[outcome |-> Resolve(<<>>), value |-> searchPredefinedLocations(query)]>>

\* the concatenated values of the strategies that settled before their timer
RECURSIVE InTimeValues(_)
InTimeValues(strategies) ==
  IF strategies = <<>> THEN <<>>
  ELSE (IF strategies[1].outcome.kind = "timeout" THEN <<>> ELSE strategies[1].value)
         \o InTimeValues(Tail(strategies))

PairOfQuery ==
  (<<"4", "0", ".", "7", "1", "2", "8", ",", "-", "7", "4", ".", "0", "0", "6",
      "0">> :> [lat |-> 407128, lon |-> -740060]) @@
  (<<"9", "0", ",", " ", "1", "8", "0">> :> [lat |-> 900000, lon |-> 1800000]) @@
  (<<"-", "9", "0", ".", "0", ",", "-", "1", "8", "0">> :> [lat |-> -900000, lon |-> -1800000])

CoordinateResults(list) == {i \in 1..Len(list) : list[i].type = "coordinate"}

\* C12: for a query "lat,lon" with lat in [-90,90] and lon in [-180,180] and
\* includeCoordinates enabled, searchLocations returns exactly one result of
\* type coordinate, with relevanceScore >= 90 and the parsed coordinates,
\* whether reverse geocoding succeeds or fails; when a component is out of
\* range or the query does not match the pattern, no result of type
\* coordinate is returned.
C12_OneCoordinateResult ==
  IsSearchReturn =>
    /\ ~searchReturned.threw
    /\ IF searchReturned.query \in DOMAIN PairOfQuery
         THEN searchReturned.options.includeCoordinates =>
                \E i \in CoordinateResults(ReturnedList) :
                  /\ CoordinateResults(ReturnedList) = {i}
                  /\ ReturnedList[i].relevanceScore >= 90 * Scale
                  /\ ReturnedList[i].coordinates = PairOfQuery[searchReturned.query]
         ELSE CoordinateResults(ReturnedList) = {}

\* the edit distance between the first i characters of a and the first j of b,
\* by its recurrence
RECURSIVE EditDistance(_, _, _, _)
EditDistance(a, b, i, j) ==
  IF i = 0 THEN j
  ELSE IF j = 0 THEN i
  ELSE LET sub == EditDistance(a, b, i - 1, j - 1) + (IF a[i] = b[j] THEN 0 ELSE 1)
           del == EditDistance(a, b, i - 1, j) + 1
           ins == EditDistance(a, b, i, j - 1) + 1
       IN Min(sub, Min(del, ins))

\* s has t at position k
HasAt(s, t, k) == k + Len(t) - 1 <= Len(s) /\ SubSeq(s, k, k + Len(t) - 1) = t

\* the score the rules give a name for a query, times Scale
RuleScore(name, query) ==
  LET n == toLowerCase(name)
      q == toLowerCase(query)
      maxlen == Max(Len(n), Len(q))
  IN IF n = q THEN 100 * Scale
     ELSE IF HasAt(n, q, 1) THEN 90 * Scale
     ELSE IF \E k \in 2..Len(n) : n[k - 1] = " " /\ HasAt(n, q, k) THEN 80 * Scale
     ELSE IF \E k \in 1..Len(n) : HasAt(n, q, k) THEN 70 * Scale
     ELSE Max(0, ((maxlen - EditDistance(n, q, Len(n), Len(q))) * 60 * Scale) \div maxlen)

IsCityScore == searchReturned.op = "calculateCityRelevance"
IsStationScore == searchReturned.op = "StationResult"

\* the name property of a station record, '' when absent
StationName(station) ==
  IF station.station.name = UndefinedStr THEN <<>> ELSE station.station.name

\* C14 as stated: a city scores 100 when its name equals the query, 90 when it
\* starts with it, 80 when it contains it after a space, 70 when it contains
\* it, otherwise max(0, 60 * (1 - editDistance / max(len))), case-insensitively
\* and first rule first; a station result scores the city relevance of its
\* city name plus 10.
C14_StationScoresCityName ==
  /\ IsCityScore =>
       searchReturned.value[1].relevanceScore =
         RuleScore(searchReturned.value[1].name, searchReturned.query)
  /\ IsStationScore =>
       searchReturned.value[1].result.relevanceScore =
         RuleScore(searchReturned.value[1].result.city, searchReturned.query) + 10 * Scale

\* C14: a city scores 100 when its name equals the query, 90 when it starts
\* with it, 80 when it contains it after a space, 70 when it contains it,
\* otherwise max(0, 60 * (1 - editDistance / max(len))), case-insensitively and
\* first rule first; a station result scores the same rules applied to its
\* whole station name (not to the city name cut from it) plus 10.
C14_StationScoresStationName ==
  /\ IsCityScore =>
       searchReturned.value[1].relevanceScore =
         RuleScore(searchReturned.value[1].name, searchReturned.query)
  /\ IsStationScore =>
       searchReturned.value[1].result.relevanceScore =
         RuleScore(StationName(searchReturned.value[1].station), searchReturned.query)
           + 10 * Scale

\* a station whose name goes on after its city has been scored by a rule that
\* its city name alone would not have met
C14_Witness ==
  /\ IsStationScore
  /\ searchReturned.value[1].result.city # StationName(searchReturned.value[1].station)
  /\ searchReturned.value[1].result.relevanceScore = 100 * Scale
  /\ toLowerCase(searchReturned.value[1].result.city) = toLowerCase(searchReturned.query)

\* the positions of the recent searches that no favorite matches in city and country
KeptRecents(favorites, recentSearches) ==
  {k \in 1..Len(recentSearches) :
     ~\E f \in 1..Len(favorites) :
        /\ favorites[f].city = recentSearches[k].city
        /\ favorites[f].country = recentSearches[k].country}

\* list is the favorites followed by the recent searches that match no
\* favorite, both in stored order, cut to 8 entries
IsBlend(list, favorites, recentSearches) ==
  LET kept == KeptRecents(favorites, recentSearches)
      nth(n) == CHOOSE k \in kept : Cardinality({m \in kept : m <= k}) = n
  IN /\ Len(list) = Min(8, Len(favorites) + Cardinality(kept))
     /\ \A i \in 1..Len(list) :
          IF i <= Len(favorites)
            THEN list[i].type = "favorite" /\ list[i].location = favorites[i]
            ELSE list[i].type = "recent"
                 /\ list[i].location = recentSearches[nth(i - Len(favorites))]

\* the step of debouncedSearch for a query shorter than 2 characters
ShortQueryStep ==
  /\ locationSearch.debounce
  /\ ~locationSearch'.debounce
  /\ Len(locationSearch.query) < 2

\* C17: for a query shorter than 2 characters the search sets, without any
\* network call, the favorites followed by the recent locations, without the
\* recents that have the city and country of a favorite, every favorite
\* before every recent, at most 8 entries.
C17_ShortQueryBlend ==
  [][ShortQueryStep =>
       /\ IsBlend(locationSearch'.results, locationSearch.favorites,
                  locationSearch.recentSearches)
       /\ Len(locationSearch'.results) <= 8
       /\ \A i, j \in 1..Len(locationSearch'.results) :
            (locationSearch'.results[i].type = "favorite"
               /\ locationSearch'.results[j].type = "recent") => i < j
       /\ UNCHANGED <<searchCalls, searchReturned, searchCache>>]_vars

\* a short query has been answered with 8 entries, favorites and recents, while
\* more were stored and a stored recent is also a favorite
C17_Witness ==
  /\ ~locationSearch.debounce
  /\ Len(locationSearch.query) < 2
  /\ locationSearch.shownFor = Some(locationSearch.query)
  /\ Len(locationSearch.results) = 8
  /\ locationSearch.results[1].type = "favorite"
  /\ locationSearch.results[8].type = "recent"
  /\ Len(locationSearch.favorites) + Len(locationSearch.recentSearches) > 8
  /\ \E k \in 1..Len(locationSearch.recentSearches) :
       k \notin KeptRecents(locationSearch.favorites, locationSearch.recentSearches)
  /\ \A c \in ComponentSlots : searchCalls[c].pc = "idle"

\* all searches of the component have settled and shown their results
ComponentQuiescent ==
  /\ ~locationSearch.debounce
  /\ \A c \in ComponentSlots : searchCalls[c].pc = "idle"
  /\ searchReturned = NoSearchReturn

\* the city results of list carry the scores of the query
ScoredFor(list, query) ==
  \A i \in 1..Len(list) :
    list[i].type = "city" =>
      list[i].relevanceScore = calculateCityRelevance(list[i].city, query)

\* C19: when a search for q2 is started while a search for another query q1 is
\* in flight, then once both have settled, in whichever order, the results
\* LocationSearch shows are those of q2 and the cache entry keyed by q2 holds
\* q2's results.
C19_NewerQueryShown ==
  (ComponentQuiescent /\ Len(locationSearch.query) >= 2) =>
    /\ ScoredFor([i \in 1..Len(locationSearch.results) |-> locationSearch.results[i].location],
                 locationSearch.query)
    /\ \A key \in DOMAIN searchCache : ScoredFor(searchCache[key].data, key[2])

\* C20: every refresh of the current AQI, by the 5-minute interval of useAQI
\* or by the manual refresh, yields a new reading obtained from a source and
\* not the reading the previous refresh delivered.
C20_RefreshYieldsNewReading ==
  (returned # NoReturn /\ returned.caller = "useAQI"
     /\ aqiHook.fetch \in {"interval", "manual"}) =>
    /\ returned.servedBy # "cache"
    /\ returned.value # aqiHook.data

\* C21 (as stated): getCurrentAQI sends no request to a source whose API key is
\* missing or is the placeholder text, and the attempts made with the other sources
\* are the same whatever that key is: every source is attempted in turn until one
\* answers.  A placeholder key is a non-empty string, so the request is sent.
C21_UnconfiguredNotRequested ==
  (IsReturn /\ returned.op = "getCurrentAQI") =>
    \A i \in 1..Len(returned.attempts) :
      keys[returned.attempts[i].source] \in {KeyUnset, KeyPlaceholder}
        => ~returned.attempts[i].network

\* C22 (as stated): every call of getCurrentAQI and getForecast eventually returns,
\* also when a provider never answers, every request being bounded by a timeout.
\* The two requests of getOpenWeatherForecast have no timeout.
C22_EveryCallReturns ==
  \A c \in ForecastCallers : (calls[c].pc # "idle") ~> (calls[c].pc = "idle")

\* C23 (as stated): every entry of the search cache has expiresAt = timestamp + 10
\* minutes, the clock being free to advance between any two reads of it.  The cache
\* write reads the clock once for each of the two fields.
C23_ExpiresAtIsTimestampPlusTTL ==
  \A key \in DOMAIN searchCache :
    searchCache[key].expiresAt = searchCache[key].timestamp + SEARCH_CACHE_DURATION

\* the station records the claim of C24 has dropped: no coordinates, no pair, (0, 0)
IsUnlocatedRecord(record) ==
  \/ Len(record.station.geo) # 2
  \/ record.station.geo = <<0, 0>>

\* C24 (as stated): of the records the station search answers with,
\* searchMonitoringStations drops exactly those without a pair of coordinates or at
\* (0, 0); every other record, one on the equator or on the prime meridian
\* included, becomes a station result.  The filter drops every record with a zero
\* latitude or a zero longitude.
C24_DropsExactlyUnlocated ==
  (/\ searchReturned.op = "searchLocations"
   /\ searchReturned.path = "miss"
   /\ searchReturned.env[1].stations.kind = "resolve"
   /\ searchReturned.env[1].stations.data.status = "ok"
   /\ searchReturned.env[1].stations.data.data # None) =>
    LET records == searchReturned.env[1].stations.data.data[1]
        stations == searchMonitoringStations(searchReturned.query, TRUE,
                                             searchReturned.env[1].stations)
    IN \A i \in 1..Len(records) :
         (~IsUnlocatedRecord(records[i]))
           <=> (\E j \in 1..Len(stations) : stations[j].stationId = Some(records[i].uid))

\* the cache holds a reading younger than the TTL for the same city at coordinates
\* that differ from those of location by at most 0.0001 degree
HasFreshNearbyEntry(location) ==
  \E key \in DOMAIN cache :
    /\ key[2] = location.city
    /\ Abs(key[3] - location.coordinates.lat) <= 1
    /\ Abs(key[4] - location.coordinates.lon) <= 1
    /\ now - cache[key].timestamp < CACHE_DURATION

\* C25 (as stated): a getCurrentAQI request for a city for which the cache holds a
\* fresh reading at coordinates within the rounding of the key calls no source.
\* The key is built from the coordinates as they are, without rounding.
C25_NearbyRequestCallsNoSource ==
  [][\A c \in AqiCallers :
       (calls[c].pc = "idle" /\ calls'[c].pc = "await")
         => ~HasFreshNearbyEntry(calls'[c].location)]_vars

\* the merge of the search that is returning: the values of its fulfilled
\* strategies in dispatch order
MergedList ==
  FulfilledValues(searchReturned.query, searchReturned.options, searchReturned.env[1])

\* the first result of the merge that has the key of result
FirstWithKey(merged, result) ==
  merged[CHOOSE i \in 1..Len(merged) :
           /\ DedupeKey(merged[i]) = DedupeKey(result)
           /\ \A j \in 1..(i - 1) : DedupeKey(merged[j]) # DedupeKey(result)]

IsSameResult(a, b) ==
  /\ a.city = b.city /\ a.country = b.country /\ a.coordinates = b.coordinates
  /\ a.type = b.type /\ a.relevanceScore = b.relevanceScore /\ a.stationId = b.stationId

\* C26: in the list a cache miss of searchLocations returns no two results share
\* the key of lower-cased city and coordinates rounded to three decimals, and each
\* result is the first of its key in dispatch order (coordinates, geocoder,
\* stations, gazetteer), whatever the scores of the later ones; when the list is
\* not cut to maxResults every key of the merge is in it.
C26_FirstOfEachKeyKept ==
  (IsListReturn /\ searchReturned.path = "miss") =>
    /\ \A i, j \in 1..Len(ReturnedList) :
         i < j => DedupeKey(ReturnedList[i]) # DedupeKey(ReturnedList[j])
    /\ \A i \in 1..Len(ReturnedList) :
         /\ \E k \in 1..Len(MergedList) : DedupeKey(MergedList[k]) = DedupeKey(ReturnedList[i])
         /\ IsSameResult(ReturnedList[i], FirstWithKey(MergedList, ReturnedList[i]))
    /\ Len(ReturnedList) < searchReturned.options.maxResults =>
         \A k \in 1..Len(MergedList) :
           \E i \in 1..Len(ReturnedList) : DedupeKey(ReturnedList[i]) = DedupeKey(MergedList[k])

\* a miss has returned the geocoder's city although the station search produced a
\* station with the same key and a higher score
C26_Witness ==
  /\ IsListReturn
  /\ searchReturned.path = "miss"
  /\ Len(ReturnedList) < searchReturned.options.maxResults
  /\ \E k, l \in 1..Len(MergedList) :
       /\ k < l
       /\ MergedList[k].type = "city"
       /\ MergedList[l].type = "station"
       /\ DedupeKey(MergedList[k]) = DedupeKey(MergedList[l])
       /\ MergedList[l].relevanceScore > MergedList[k].relevanceScore
       /\ \E i \in 1..Len(ReturnedList) : IsSameResult(ReturnedList[i], MergedList[k])
       /\ \A i \in 1..Len(ReturnedList) : ~IsSameResult(ReturnedList[i], MergedList[l])

\* the list a cache miss of the returning call would return, the providers
\* answering as they do in SpecRepeat
MissList ==
  rankAndFilterResults(
    removeDuplicates(FulfilledValues(searchReturned.query, searchReturned.options,
                                     ManyPlacesOutcome)).value,
    searchReturned.query, searchReturned.currentLocation,
    searchReturned.options.maxResults).value

\* C27 (as stated): the list searchLocations returns on a cache hit with maxResults
\* = m is the first m entries of the list a cache miss with the same arguments
\* would return, whatever maxResults the call that filled the cache was given.
\* The cache holds the list already cut to the maxResults of the call that filled it.
C27_HitEqualsMiss ==
  (IsListReturn /\ searchReturned.path = "hit") =>
    ReturnedList = slice(MissList, searchReturned.options.maxResults)

\* C28 (as stated): a result returned by searchLocations carries a distance only if
\* currentLocation was passed to that call, and the distance is then the one to that
\* currentLocation.  The results of a cache hit are the objects of the cached list,
\* which keep the distance an earlier call assigned to them.
C28_DistanceToOwnLocation ==
  IsListReturn =>
    \A i \in 1..Len(ReturnedList) :
      ReturnedList[i].distance # None =>
        /\ searchReturned.currentLocation # None
        /\ ReturnedList[i].distance =
             Some(calculateDistance(searchReturned.currentLocation[1].coordinates.lat,
                                    searchReturned.currentLocation[1].coordinates.lon,
                                    ReturnedList[i].coordinates.lat,
                                    ReturnedList[i].coordinates.lon))

\* every fetch the hook started has settled and its continuation has run
AllFetchesSettled ==
  /\ returned = NoReturn
  /\ \A c \in HookFetches : calls[c].pc = "idle"

\* a fetch for the location the hook is given now is still in flight
FetchForCurrentInFlight ==
  \E c \in HookFetches :
    /\ calls[c].pc = "await"
    /\ Some(calls[c].location) = aqiHook.location

\* C29 (as stated): after the location changed while a fetch was in flight, the
\* reading the hook holds once all fetches have settled is the one fetched for the
\* current location, and loading is true while a fetch for the current location is
\* in flight.  No fetch is cancelled or ignored: the one that settles last wins, and
\* its finally clears loading.
C29_HookHoldsCurrentLocation ==
  /\ (AllFetchesSettled /\ aqiHook.location # None) =>
       aqiHook.dataFor = aqiHook.location
  /\ FetchForCurrentInFlight => aqiHook.loading

\* the call of c is awaiting a source and has sent at least one request to a source
HasIssuedRequests(c) ==
  /\ calls[c].pc = "await"
  /\ \E i \in 1..Len(calls[c].attempts) : calls[c].attempts[i].network

\* C30 (as stated): of the getCurrentAQI calls for one cache key that overlap in time,
\* at most one issues source requests.  The cache is only read on entry and only
\* written after a source answered, so a call that enters while another is awaiting
\* misses the cache and starts its own requests.
C30_OneRequesterPerKey ==
  \A c1, c2 \in AqiCallers :
    (/\ c1 # c2
     /\ HasIssuedRequests(c1)
     /\ HasIssuedRequests(c2)) =>
      cacheKey(calls[c1].location) # cacheKey(calls[c2].location)

====
